---- MODULE Spec2Model ----
(***************************************************************************)
(* A model of the evolutionary-algorithm engine of GeneticFramework        *)
(* (src/src/genetic_framework): Individual and its memoized fitness, the   *)
(* Roulette sampler, the mating / survivor / solution selectors and the    *)
(* Population that drives one generation step.                             *)
(*                                                                         *)
(* Objects are modelled by identity: an Individual is an id, `heap` maps   *)
(* the ids of the live objects to their fields, and lists of individuals   *)
(* (the population, the archive, a breed) are sequences of ids, so that    *)
(* one object held in two places is one entry of the heap.  A chromosome   *)
(* is an integer 0..MaxChromosome.  Fitness values are integers; the       *)
(* random numbers the code draws are nondeterministic choices.             *)
(***************************************************************************)
EXTENDS Integers, Sequences, FiniteSets, TLC

(* ------------------------------ bounds -------------------------------- *)
\* Largest chromosome value of the model.
MaxChromosome == 2
\* Largest population size of a run.
MaxPopulation == 2
\* Population.evolve() is not called once population.generation exceeds this.
MaxGeneration == 2
\* Largest number_solutions of the solution selector.
MaxSolutions == 2

VARIABLES
    heap,             \* live Individual objects: id -> [chromosome, generation]
    fitness_cache,    \* the lru_cache of Individual.fitness, shared by all individuals: id -> value
    population,       \* Population.population: a list of individuals
    generation,       \* Population.generation
    avg_cache,        \* the lru_cache of Population.avg_fitness: <<>> or <<value>>
    sd_cache,         \* the lru_cache of Population.sd_fitness:  <<>> or <<value>>
    best_individuals, \* KBestFitnessSolutionSelector._best_individuals
    config,           \* the configuration of the run, fixed at construction
    last_call,        \* the last operation executed and what it returned
    args,             \* the arguments of the selector call under test
    sampler,          \* a Roulette under test: its items and what it returned so far
    fitness_asked,    \* history: the individuals whose fitness() was called since
                      \* their chromosome last changed
    run               \* the local variables of run_experiment under test

vars == <<heap, fitness_cache, population, generation, avg_cache, sd_cache,
          best_individuals, config, last_call, args, sampler, fitness_asked, run>>

(* ----------------------------- helpers -------------------------------- *)
Chromosomes == 0..MaxChromosome

Range(s) == {s[k] : k \in 1..Len(s)}

RECURSIVE SumOver(_, _)
\* The sum of g[x] over the entries of the sequence s.
SumOver(s, g) == IF s = <<>> THEN 0 ELSE g[Head(s)] + SumOver(Tail(s), g)

RECURSIVE SortInsert(_, _, _, _)
\* x, which came after every entry of the sorted list, put at its place: before
\* the first entry whose key is strictly after x's.
SortInsert(sorted, x, key, reverse) ==
    IF sorted = <<>> THEN <<x>>
    ELSE IF (IF reverse THEN key[Head(sorted)] < key[x] ELSE key[x] < key[Head(sorted)])
    THEN <<x>> \o sorted
    ELSE <<Head(sorted)>> \o SortInsert(Tail(sorted), x, key, reverse)

RECURSIVE StableSort(_, _, _)
\* list.sort(key=..., reverse=...): a stable sort by key (entry -> number); with
\* reverse the larger keys come first; entries with equal keys keep their order.
StableSort(s, key, reverse) ==
    IF s = <<>> THEN <<>>
    ELSE SortInsert(StableSort(SubSeq(s, 1, Len(s) - 1), key, reverse),
                    s[Len(s)], key, reverse)

\* Sorting a list of individuals by a fitness key f (id -> value).
SortByFitness(s, f, reverse) == StableSort(s, f, reverse)

\* The k smallest ids that name no object of the set `used`.
RECURSIVE FreshIds(_, _)
FreshIds(used, k) ==
    IF k = 0 THEN <<>>
    ELSE LET id == CHOOSE i \in 1..(Cardinality(used) + 1) :
                       i \notin used /\ \A j \in 1..(i - 1) : j \in used
         IN  <<id>> \o FreshIds(used \cup {id}, k - 1)

EmptyFunction == [x \in {} |-> 0]

Restrict(f, S) == [x \in (DOMAIN f) \cap S |-> f[x]] @@ EmptyFunction


(* --------------------------- FitnessComputer -------------------------- *)
\* FitnessComputer.fitness(chromosome): the pluggable fitness function; the model
\* plugs in one with a negative, a zero and positive values.
FitnessComputer_fitness(chromosome) == chromosome - 1

(* ----------------------------- Individual ----------------------------- *)
\* Individual.fitness() under @lru_cache: the memoized value when the cache
\* holds one for this individual, else the fitness of its chromosome.
Individual_fitness(h, cache, id) ==
    IF id \in DOMAIN cache THEN cache[id]
    ELSE FitnessComputer_fitness(h[id].chromosome)

\* The cache after fitness() was called on every individual of the set S.
CacheAfterFitness(h, cache, S) ==
    cache @@ [id \in S \ DOMAIN cache |-> FitnessComputer_fitness(h[id].chromosome)]

(* ------------------------------ Roulette ------------------------------ *)
RECURSIVE AccumulateItems(_, _, _)
\* The items of a roulette over the (sorted) list s: each individual with the
\* running sum of the fitness values up to it.
AccumulateItems(s, f, acc) ==
    IF s = <<>> THEN <<>>
    ELSE <<[individual |-> Head(s), acc_probability |-> acc + f[Head(s)]]>>
         \o AccumulateItems(Tail(s), f, acc + f[Head(s)])

\* Roulette.__init__(population, replacement): sorts the list it is given by
\* fitness, largest first, and gives each individual its fitness as weight.
\* The second argument is stored and never read.
Roulette_init(population_list, replacement, f) ==
    LET sorted == SortByFitness(population_list, f, TRUE)
    IN  [population |-> sorted,
         replacement |-> replacement,
         items |-> AccumulateItems(sorted, f, 0)]

\* The values of r = random() * total, random() in [0, 1), doubled: with integer
\* weights every outcome of the comparisons r <= acc_probability is reached by
\* an integer or a half-integer r.
RouletteDoubledDraws(total) ==
    IF total > 0 THEN 0..(2 * total - 1)
    ELSE IF total < 0 THEN (2 * total + 1)..0
    ELSE {0}

\* A get_individual() that leaves the selected item in the roulette.
Roulette_get_individual_Keep(items) ==
    IF items = <<>>
    THEN {[raised |-> TRUE, individual |-> 0, items |-> items]}
    ELSE LET n == Len(items)
             Found(r2) == {k \in 1..n : r2 <= 2 * items[k].acc_probability}
             Selected(r2) ==
                 IF Found(r2) # {}
                 THEN {CHOOSE k \in Found(r2) : \A m \in Found(r2) : k <= m}
                 ELSE 1..n
         IN  {[raised |-> FALSE, individual |-> items[k].individual, items |-> items] :
                 k \in UNION {Selected(r2) :
                                r2 \in RouletteDoubledDraws(items[n].acc_probability)}}

\* Roulette.get_individual(): the possible outcomes of one call, each with the
\* items left in the roulette.  The selected item is removed whatever
\* `replacement` is; an empty roulette raises IndexError.
Roulette_get_individual(items) ==
    IF items = <<>>
    THEN {[raised |-> TRUE, individual |-> 0, items |-> items]}
    ELSE LET n == Len(items)
             Remove(k) == SubSeq(items, 1, k - 1) \o SubSeq(items, k + 1, n)
             Found(r2) == {k \in 1..n : r2 <= 2 * items[k].acc_probability}
             Selected(r2) ==
                 IF Found(r2) # {}
                 THEN {CHOOSE k \in Found(r2) : \A m \in Found(r2) : k <= m}
                 ELSE 1..n      \* StopIteration: randint(0, len - 1)
         IN  {[raised |-> FALSE, individual |-> items[k].individual, items |-> Remove(k)] :
                 k \in UNION {Selected(r2) :
                                r2 \in RouletteDoubledDraws(items[n].acc_probability)}}

RECURSIVE RouletteDraws(_, _)
\* k successive get_individual() calls: the possible lists of individuals drawn;
\* `raised` when one of the calls raised.
RouletteDraws(items, k) ==
    IF k = 0 THEN {[raised |-> FALSE, drawn |-> <<>>, items |-> items]}
    ELSE UNION {IF o.raised
                THEN {[raised |-> TRUE, drawn |-> <<>>, items |-> o.items]}
                ELSE {[raised |-> r.raised,
                       drawn |-> IF r.raised THEN <<>> ELSE <<o.individual>> \o r.drawn,
                       items |-> r.items] : r \in RouletteDraws(o.items, k - 1)} :
                o \in Roulette_get_individual(items)}

(* -------------------------- survivor selectors ------------------------ *)
RECURSIVE BestFitnessMerge(_, _, _, _, _, _, _)
\* The loop of BestFitnessSurvivorSelector.select_survivors; i and j count the
\* entries of parents and breed passed over.
BestFitnessMerge(population_size, parents, breed, f, i, j, new_generation) ==
    IF ~(i + j < population_size) THEN new_generation
    ELSE IF i = Len(parents) /\ j = Len(breed) THEN new_generation
    ELSE IF i = Len(parents)
         THEN BestFitnessMerge(population_size, parents, breed, f, i, j + 1,
                               Append(new_generation, breed[j + 1]))
    ELSE IF j = Len(breed)
         THEN BestFitnessMerge(population_size, parents, breed, f, i + 1, j,
                               Append(new_generation, parents[i + 1]))
    ELSE IF f[parents[i + 1]] < f[breed[j + 1]]
         THEN BestFitnessMerge(population_size, parents, breed, f, i, j + 1,
                               Append(new_generation, breed[j + 1]))
    ELSE IF f[parents[i + 1]] > f[breed[j + 1]]
         THEN BestFitnessMerge(population_size, parents, breed, f, i + 1, j,
                               Append(new_generation, parents[i + 1]))
    ELSE \* the same fitness: the breed entry is taken and the parent passed over
         BestFitnessMerge(population_size, parents, breed, f, i + 1, j,
                          Append(new_generation, breed[j + 1]))

\* Mutant of BestFitnessSurvivorSelector: the loop runs while i + j <= population_size.
BestFitnessSurvivorSelector_OneMore(population_size, parents, breed, maximize_fitness, f) ==
    BestFitnessMerge(population_size + 1,
                     SortByFitness(parents, f, maximize_fitness),
                     SortByFitness(breed, f, maximize_fitness),
                     f, 0, 0, <<>>)

\* BestFitnessSurvivorSelector.select_survivors
BestFitnessSurvivorSelector(population_size, parents, breed, maximize_fitness, f) ==
    BestFitnessMerge(population_size,
                     SortByFitness(parents, f, maximize_fitness),
                     SortByFitness(breed, f, maximize_fitness),
                     f, 0, 0, <<>>)

\* RouletteSurvivorSelector.select_survivors: the possible results; maximize_fitness
\* is passed where Roulette takes `replacement`.
RouletteSurvivorSelector(population_size, parents, breed, maximize_fitness, f) ==
    LET roulette == Roulette_init(parents \o breed, maximize_fitness, f)
    IN  {[raised |-> r.raised, survivors |-> r.drawn] :
            r \in RouletteDraws(roulette.items, population_size)}

\* A generational selector that ranks by fitness alone.
GenerationalSurvivorSelector_ByFitness(population_size, parents, breed, maximize_fitness, f, h) ==
    LET all == parents \o breed
        n == Len(all)
        sorted == StableSort(all, f, maximize_fitness)
    IN  IF n = 0 THEN [raised |-> TRUE, survivors |-> <<>>]
        ELSE [raised |-> FALSE,
              survivors |-> SubSeq(sorted, 1, IF population_size < n THEN population_size ELSE n)]

\* GenerationalSurvivorSelector.select_survivors.  mean() of an empty list raises
\* StatisticsError.  score = (fitness / avg_fitness) * (gen / avg_gen) is kept as
\* the exact fraction ScoreNum / ScoreDen, ScoreDen the same for all.
GenerationalSurvivorSelector(population_size, parents, breed, maximize_fitness, f, h) ==
    LET all == parents \o breed
        n == Len(all)
        sum_gen == SumOver(all, [id \in Range(all) |-> h[id].generation])
        sum_fit == SumOver(all, f)
        \* a mean of 0.0 is replaced by 1.0: the sum by n
        gen_total == IF sum_gen = 0 THEN n ELSE sum_gen
        fit_total == IF sum_fit = 0 THEN n ELSE sum_fit
        ScoreDen == fit_total * gen_total
        ScoreNum(id) == f[id] * n * h[id].generation * n
        \* the scores in the order of the fractions: numerators, negated when the
        \* denominator is negative
        score == [id \in Range(all) |->
                    IF ScoreDen > 0 THEN ScoreNum(id) ELSE 0 - ScoreNum(id)] @@ EmptyFunction
        sorted == StableSort(all, score, maximize_fitness)
    IN  IF n = 0 THEN [raised |-> TRUE, survivors |-> <<>>]
        ELSE [raised |-> FALSE,
              survivors |-> SubSeq(sorted, 1, IF population_size < n THEN population_size ELSE n)]

(* --------------------------- mating selectors ------------------------- *)
\* Each select_couples is given the population list, num_pairs, maximize_fitness
\* and the fitness key f.  Its outcome holds the couples, the population list as
\* the call leaves it (it is sorted or shuffled in place), and whether the call
\* raised; `called` is the set of individuals whose fitness() the call asked.

\* A select_couples without the test of size <= 1.
BestFitnessMatingSelector_NoSizeTest(population_list, num_pairs, maximize_fitness, f) ==
    LET sorted == SortByFitness(population_list, f, maximize_fitness)
        size == Len(sorted)
    IN  IF \E k \in 0..(num_pairs - 1) : 2 * k + 2 > size
        THEN {[raised |-> TRUE, couples |-> <<>>, population |-> sorted,
               called |-> Range(sorted)]}
        ELSE {[raised |-> FALSE,
               couples |-> [k \in 1..num_pairs |-> <<sorted[2 * k - 1], sorted[2 * k]>>] \o <<>>,
               population |-> sorted, called |-> Range(sorted)]}

\* BestFitnessMatingSelector.select_couples: population[i + 1] past the end of
\* the list raises IndexError.
BestFitnessMatingSelector(population_list, num_pairs, maximize_fitness, f) ==
    LET sorted == SortByFitness(population_list, f, maximize_fitness)
        size == Len(sorted)
    IN  IF size <= 1
        THEN {[raised |-> FALSE, couples |-> <<>>, population |-> sorted,
               called |-> Range(sorted)]}
        ELSE IF \E k \in 0..(num_pairs - 1) : 2 * k + 2 > size
        THEN {[raised |-> TRUE, couples |-> <<>>, population |-> sorted,
               called |-> Range(sorted)]}
        ELSE {[raised |-> FALSE,
               couples |-> [k \in 1..num_pairs |-> <<sorted[2 * k - 1], sorted[2 * k]>>] \o <<>>,
               population |-> sorted, called |-> Range(sorted)]}

RECURSIVE RandomPairs(_, _)
\* num_pairs times two different random positions of the list.
RandomPairs(population_list, num_pairs) ==
    IF num_pairs = 0 THEN {<<>>}
    ELSE LET size == Len(population_list)
         IN  {<<<<population_list[p[1]], population_list[p[2]]>>>> \o rest :
                 p \in {q \in (1..size) \X (1..size) : q[1] # q[2]},
                 rest \in RandomPairs(population_list, num_pairs - 1)}

\* RandomMatingSelector.select_couples
RandomMatingSelector(population_list, num_pairs, maximize_fitness, f) ==
    IF Len(population_list) <= 1
    THEN {[raised |-> FALSE, couples |-> <<>>, population |-> population_list,
           called |-> {}]}
    ELSE {[raised |-> FALSE, couples |-> pairs, population |-> population_list,
           called |-> {}] :
             pairs \in RandomPairs(population_list, num_pairs)}

RECURSIVE RouletteSecondMate(_, _)
\* mate2 = roulette.get_individual(), drawn again while mate2 == mate1.
RouletteSecondMate(items, mate1) ==
    UNION {IF o.raised THEN {o}
           ELSE IF o.individual = mate1 THEN RouletteSecondMate(o.items, mate1)
           ELSE {o} : o \in Roulette_get_individual(items)}

RECURSIVE RoulettePairs(_, _)
\* The loop of RouletteMatingSelector.select_couples.
RoulettePairs(items, num_pairs) ==
    IF num_pairs = 0 THEN {[raised |-> FALSE, couples |-> <<>>]}
    ELSE UNION {
           IF o1.raised THEN {[raised |-> TRUE, couples |-> <<>>]}
           ELSE UNION {
                  IF o2.raised THEN {[raised |-> TRUE, couples |-> <<>>]}
                  ELSE {[raised |-> r.raised,
                         couples |-> IF r.raised THEN <<>>
                                     ELSE <<<<o1.individual, o2.individual>>>> \o r.couples] :
                           r \in RoulettePairs(o2.items, num_pairs - 1)} :
                  o2 \in RouletteSecondMate(o1.items, o1.individual)} :
           o1 \in Roulette_get_individual(items)}

\* RouletteMatingSelector.select_couples: the roulette is built (and the population
\* sorted by it) before the size test; maximize_fitness is passed where Roulette
\* takes `replacement`.
RouletteMatingSelector(population_list, num_pairs, maximize_fitness, f) ==
    LET roulette == Roulette_init(population_list, maximize_fitness, f)
    IN  IF Len(population_list) <= 1
        THEN {[raised |-> FALSE, couples |-> <<>>, population |-> roulette.population,
               called |-> Range(population_list)]}
        ELSE {[raised |-> r.raised, couples |-> r.couples,
               population |-> roulette.population, called |-> Range(population_list)] :
                 r \in RoulettePairs(roulette.items, num_pairs)}

\* random_count = min(5, len(population))
RandomCountLimit == 5

\* shuffle(list): every order of the list.
Shuffles(s) == {[k \in 1..Len(s) |-> s[p[k]]] \o <<>> : p \in Permutations(1..Len(s))}

RECURSIVE BestFromRandomPairs_Unsorted(_, _, _, _)
\* The loop without the sort: the first two of the shuffled list are the couple.
BestFromRandomPairs_Unsorted(population_list, num_pairs, maximize_fitness, f) ==
    IF num_pairs = 0
    THEN {[couples |-> <<>>, population |-> population_list, called |-> {}]}
    ELSE UNION {
           {[couples |-> <<<<shuffled[1], shuffled[2]>>>> \o r.couples,
             population |-> r.population, called |-> r.called] :
               r \in BestFromRandomPairs_Unsorted(shuffled, num_pairs - 1,
                                                  maximize_fitness, f)} :
           shuffled \in Shuffles(population_list)}

RECURSIVE BestFromRandomPairs(_, _, _, _)
\* The loop of BestFromRandomMatingSelector.select_couples: the outcomes are
\* the couples with the order the last shuffle left the population in.
BestFromRandomPairs(population_list, num_pairs, maximize_fitness, f) ==
    IF num_pairs = 0
    THEN {[couples |-> <<>>, population |-> population_list, called |-> {}]}
    ELSE LET size == Len(population_list)
             random_count == IF RandomCountLimit < size THEN RandomCountLimit ELSE size
         IN  UNION {
               LET possible_mates == SubSeq(shuffled, 1, random_count)
                   selected_mates == SortByFitness(possible_mates, f, maximize_fitness)
               IN  {[couples |-> <<<<selected_mates[1], selected_mates[2]>>>> \o r.couples,
                     population |-> r.population,
                     called |-> Range(possible_mates) \cup r.called] :
                       r \in BestFromRandomPairs(shuffled, num_pairs - 1,
                                                 maximize_fitness, f)} :
               shuffled \in Shuffles(population_list)}

\* BestFromRandomMatingSelector.select_couples
BestFromRandomMatingSelector(population_list, num_pairs, maximize_fitness, f) ==
    IF Len(population_list) <= 1
    THEN {[raised |-> FALSE, couples |-> <<>>, population |-> population_list,
           called |-> {}]}
    ELSE {[raised |-> FALSE, couples |-> r.couples, population |-> r.population,
           called |-> r.called] :
             r \in BestFromRandomPairs(population_list, num_pairs, maximize_fitness, f)}

\* MatingSelector.select_couples of the configured selector class.
SelectCouples(selector, population_list, num_pairs, maximize_fitness, f) ==
    CASE selector = "BestFitness" ->
            BestFitnessMatingSelector(population_list, num_pairs, maximize_fitness, f)
      [] selector = "Random" ->
            RandomMatingSelector(population_list, num_pairs, maximize_fitness, f)
      [] selector = "Roulette" ->
            RouletteMatingSelector(population_list, num_pairs, maximize_fitness, f)
      [] selector = "BestFromRandom" ->
            BestFromRandomMatingSelector(population_list, num_pairs, maximize_fitness, f)

\* SurvivorSelector.select_survivors of the configured selector class: the
\* possible results.
SelectSurvivors(selector, population_size, parents, breed, maximize_fitness, f, h) ==
    CASE selector = "BestFitness" ->
            {[raised |-> FALSE,
              survivors |-> BestFitnessSurvivorSelector(population_size, parents, breed,
                                                        maximize_fitness, f)]}
      [] selector = "Roulette" ->
            RouletteSurvivorSelector(population_size, parents, breed, maximize_fitness, f)
      [] selector = "Generational" ->
            {GenerationalSurvivorSelector(population_size, parents, breed,
                                          maximize_fitness, f, h)}

(* --------------------- the pluggable chromosome operators ------------- *)
\* Chromosome.initialize(): a random chromosome.
Chromosome_initialize == Chromosomes

\* Mutator.mutate_inplace(chromosome): the values the chromosome may be left with.
Mutator_mutate_inplace(chromosome) == Chromosomes

\* Recombiner.recombine(chromosome1, chromosome2): the values of the new chromosome.
Recombiner_recombine(chromosome1, chromosome2) == Chromosomes

(* ------------------------------ Population ---------------------------- *)
\* One pass of the inner loop of Population._offspring for the couple (p1, p2):
\* the child is recombined (crossover_r < crossover_prob) or a deep copy of one
\* parent, and then maybe mutated (mutation_r < mutation_prob).  recombine() and
\* self_mutate() clear the fitness cache; `cleared` records that.
ChildOutcomes(h, p1, p2) ==
    LET recombined == {[chromosome |-> c, cleared |-> TRUE] :
                          c \in Recombiner_recombine(h[p1].chromosome, h[p2].chromosome)}
        cloned == {[chromosome |-> h[p].chromosome, cleared |-> FALSE] : p \in {p1, p2}}
        created == recombined \cup cloned
    IN  created \cup
        UNION {{[chromosome |-> m, cleared |-> TRUE] :
                   m \in Mutator_mutate_inplace(child.chromosome)} : child \in created}

RECURSIVE BreedOutcomes(_, _)
\* The possible breeds for the list `slots` of couples, one child per entry.
BreedOutcomes(h, slots) ==
    IF slots = <<>> THEN {<<>>}
    ELSE {<<child>> \o rest : child \in ChildOutcomes(h, Head(slots)[1], Head(slots)[2]),
                              rest \in BreedOutcomes(h, Tail(slots))}

\* One child per couple, whatever breed_size is.
RepeatEach_Once(couples, breed_size) == couples

\* range(breed_size) for each couple of the list.
RECURSIVE RepeatEach(_, _)
RepeatEach(couples, breed_size) ==
    IF couples = <<>> THEN <<>>
    ELSE [k \in 1..breed_size |-> Head(couples)] \o RepeatEach(Tail(couples), breed_size)

\* _offspring without the branch for a population of one individual.
Population_offspring_NoSingleCase(h, cache, population_list, cfg) ==
    UNION {
      LET cache1 == CacheAfterFitness(h, cache, m.called)
      IN  IF m.raised
          THEN {[raised |-> TRUE, population |-> m.population, cache |-> cache1,
                 couples |-> <<>>, breed |-> <<>>, computed |-> m.called \ DOMAIN cache]}
          ELSE {[raised |-> FALSE, population |-> m.population, cache |-> cache1,
                 couples |-> m.couples, breed |-> b,
                 computed |-> m.called \ DOMAIN cache] :
                   b \in BreedOutcomes(h, RepeatEach(m.couples, cfg.breed_size))} :
      m \in SelectCouples(cfg.mating_selector, population_list, cfg.num_parent_pairs,
                          cfg.maximize_fitness,
                          CacheAfterFitness(h, cache, Range(population_list)))}

\* Population._offspring: the possible outcomes.  `breed` lists the children's
\* chromosomes; every child is stamped with the population's generation.
\* `computed` holds the individuals for which fitness() invoked the FitnessComputer.
Population_offspring(h, cache, population_list, cfg) ==
    IF Len(population_list) = 1
    THEN \* copies of the single individual, each maybe mutated
         LET only == population_list[1]
             slots == [k \in 1..(cfg.num_parent_pairs * cfg.breed_size) |-> <<only, only>>]
             copies(slot) == {[chromosome |-> h[only].chromosome, cleared |-> FALSE]} \cup
                             {[chromosome |-> m, cleared |-> TRUE] :
                                 m \in Mutator_mutate_inplace(h[only].chromosome)}
             RECURSIVE Copies(_)
             Copies(k) == IF k = 0 THEN {<<>>}
                          ELSE {<<c>> \o rest : c \in copies(k), rest \in Copies(k - 1)}
         IN  {[raised |-> FALSE, population |-> population_list, cache |-> cache,
               couples |-> <<>>, breed |-> b, computed |-> {}] : b \in Copies(Len(slots))}
    ELSE UNION {
           LET cache1 == CacheAfterFitness(h, cache, m.called)
           IN  IF m.raised
               THEN {[raised |-> TRUE, population |-> m.population, cache |-> cache1,
                      couples |-> <<>>, breed |-> <<>>,
                      computed |-> m.called \ DOMAIN cache]}
               ELSE {[raised |-> FALSE, population |-> m.population, cache |-> cache1,
                      couples |-> m.couples, breed |-> b,
                      computed |-> m.called \ DOMAIN cache] :
                        b \in BreedOutcomes(h, RepeatEach(m.couples, cfg.breed_size))} :
           m \in SelectCouples(cfg.mating_selector, population_list, cfg.num_parent_pairs,
                               cfg.maximize_fitness,
                               CacheAfterFitness(h, cache, Range(population_list)))}

\* A child that keeps the generation recombine() gave it, one above the
\* population's.
OffspringGeneration_Above(gen) == gen + 1

\* new_individual.generation = self.generation / breed[-1].generation =
\* self.generation in _offspring: the generation every child is stamped with.
OffspringGeneration(gen) == gen

\* self.generation += 1 at the end of evolve().
NextGeneration_Skip(gen) == gen + 2

NextGeneration(gen) == gen + 1

\* An evolve() that mutates the first individual of the population itself, not
\* a copy of it, and makes no children.
Population_evolve_InPlace(h, cache, population_list, gen, cfg) ==
    {[raised |-> FALSE,
      heap |-> [id \in DOMAIN h |->
                  IF id = population_list[1] THEN [h[id] EXCEPT !.chromosome = m]
                  ELSE h[id]],
      cache |-> EmptyFunction, population |-> population_list,
      generation |-> NextGeneration(gen), breed |-> <<>>, couples |-> <<>>,
      computed |-> <<{}, {}>>] :
        m \in Mutator_mutate_inplace(h[population_list[1]].chromosome)}

\* Population.evolve: the possible outcomes.  An exception of a selector leaves
\* the population list as the selector reordered it and the generation as it was.
\* `computed` lists, for the mating and for the survivor selection, the
\* individuals for which fitness() invoked the FitnessComputer.
Population_evolve(h, cache, population_list, gen, cfg) ==
    UNION {
      IF o.raised
      THEN {[raised |-> TRUE, heap |-> h, cache |-> o.cache,
             population |-> o.population, generation |-> gen, breed |-> <<>>,
             couples |-> <<>>, computed |-> <<o.computed>>]}
      ELSE LET ids == FreshIds(DOMAIN h, Len(o.breed))
               \* the children are new objects
               h2 == h @@ [id \in Range(ids) |->
                             LET k == CHOOSE k \in 1..Len(ids) : ids[k] = id
                             IN  [chromosome |-> o.breed[k].chromosome,
                                  generation |-> OffspringGeneration(gen)]]
               cache2 == IF \E k \in 1..Len(o.breed) : o.breed[k].cleared
                         THEN EmptyFunction ELSE o.cache
               cache3 == CacheAfterFitness(h2, cache2, Range(o.population) \cup Range(ids))
           IN  {[raised |-> r.raised, heap |-> h2, cache |-> cache3,
                 population |-> IF r.raised THEN o.population ELSE r.survivors,
                 generation |-> IF r.raised THEN gen ELSE NextGeneration(gen),
                 breed |-> ids, couples |-> o.couples,
                 computed |-> <<o.computed,
                                (Range(o.population) \cup Range(ids)) \ DOMAIN cache2>>] :
                   r \in SelectSurvivors(cfg.survivor_selector, Len(o.population),
                                         o.population, ids, cfg.maximize_fitness,
                                         cache3, h2)} :
      o \in Population_offspring(h, cache, population_list, cfg)}

\* mean() of the fitness of the population, as the fraction sum / n.
Population_avg_fitness(h, cache, population_list) ==
    [sum |-> SumOver(population_list,
                     [id \in Range(population_list) |-> Individual_fitness(h, cache, id)]),
     n |-> Len(population_list)]

\* A deviation that is 0 for every population.
Population_sd_fitness_Zero(h, cache, population_list, avg) == [num |-> 0, den |-> 1]

\* Population.sd_fitness given the value avg of avg_fitness(): 0 for fewer than 2
\* individuals, else stdev(data, xbar) = sqrt(sum((x - xbar)^2) / (n - 1)), kept as
\* the fraction num / den under the root.
Population_sd_fitness(h, cache, population_list, avg) ==
    IF Len(population_list) < 2 THEN [num |-> 0, den |-> 1]
    ELSE [num |-> SumOver(population_list,
                          [id \in Range(population_list) |->
                              (avg.n * Individual_fitness(h, cache, id) - avg.sum)
                              * (avg.n * Individual_fitness(h, cache, id) - avg.sum)]),
          den |-> avg.n * avg.n * (Len(population_list) - 1)]

(* ------------------------- the run of a Population -------------------- *)
MatingSelectors == {"BestFitness", "Random", "Roulette", "BestFromRandom"}
SurvivorSelectors == {"BestFitness", "Roulette", "Generational"}

\* The children made per generation are num_parent_pairs * breed_size.
MaxBreed == 2

\* The configurations of an Experiment over the given selector classes and
\* numbers of archived solutions.
Configs(mating, survivor, solutions) ==
    {cfg \in [population_size : 1..MaxPopulation,
              maximize_fitness : BOOLEAN,
              mating_selector : mating,
              survivor_selector : survivor,
              num_parent_pairs : 1..MaxBreed,
              breed_size : 1..MaxBreed,
              number_solutions : solutions] :
        cfg.num_parent_pairs * cfg.breed_size <= MaxBreed}

NoValue == [none |-> TRUE]

NoCall == [op |-> "init", raised |-> FALSE, after_restart |-> FALSE, value |-> NoValue]

\* No selector call, no roulette and no single individual under test.
NoHarness ==
    /\ args = NoValue
    /\ sampler = NoValue
    /\ fitness_asked = {}

\* Experiment._generate_initial_individuals and Population.__init__: population_size
\* individuals of generation 1, each initialized, no fitness asked yet; the
\* solution selector starts with an empty archive.
InitPopulation ==
    /\ population = [k \in 1..config.population_size |-> k]
    /\ heap \in [1..config.population_size ->
                    [chromosome : Chromosome_initialize, generation : {1}]]
    /\ fitness_cache = EmptyFunction
    /\ generation = 1
    /\ avg_cache = <<>>
    /\ sd_cache = <<>>
    /\ best_individuals = <<>>
    /\ last_call = NoCall
    /\ NoHarness

Init ==
    /\ config \in Configs(MatingSelectors, SurvivorSelectors, {0})
    /\ InitPopulation
    /\ run = NoValue

\* The objects still referenced after a step.
Live(population_list, archive) == Range(population_list) \cup Range(archive)

\* population.evolve(), wrapped by clear_caches_after: the caches of avg_fitness
\* and sd_fitness are cleared when evolve returns, not when it raises.
Evolve ==
    /\ ~last_call.raised
    /\ generation <= MaxGeneration
    /\ \E o \in Population_evolve(heap, fitness_cache, population, generation, config) :
         /\ population' = o.population
         /\ generation' = o.generation
         /\ heap' = Restrict(o.heap, Live(o.population, best_individuals))
         /\ fitness_cache' = Restrict(o.cache, Live(o.population, best_individuals))
         /\ avg_cache' = IF o.raised THEN avg_cache ELSE <<>>
         /\ sd_cache' = IF o.raised THEN sd_cache ELSE <<>>
         /\ last_call' = [op |-> "evolve", raised |-> o.raised, after_restart |-> FALSE,
                          value |-> NoValue]
    /\ UNCHANGED <<best_individuals, config, args, sampler, fitness_asked, run>>

\* population.restart_population(): initialize() on every individual of the list,
\* then the caches of avg_fitness and sd_fitness are cleared.  Individual.initialize
\* re-initializes the chromosome and leaves the fitness cache alone.
RestartPopulation ==
    /\ ~last_call.raised
    /\ last_call.op # "restart_population"
    /\ \E new \in [Range(population) -> Chromosome_initialize] :
         heap' = [id \in DOMAIN heap |->
                    IF id \in Range(population)
                    THEN [heap[id] EXCEPT !.chromosome = new[id]]
                    ELSE heap[id]]
    /\ avg_cache' = <<>>
    /\ sd_cache' = <<>>
    /\ last_call' = [op |-> "restart_population", raised |-> FALSE,
                     after_restart |-> TRUE, value |-> NoValue]
    /\ UNCHANGED <<fitness_cache, population, generation, best_individuals, config,
                   args, sampler, fitness_asked, run>>

\* population.avg_fitness() under @lru_cache.
AvgFitness ==
    /\ ~last_call.raised
    /\ LET value == IF avg_cache # <<>> THEN avg_cache[1]
                    ELSE Population_avg_fitness(heap, fitness_cache, population)
       IN  /\ avg_cache' = <<value>>
           /\ last_call' = [op |-> "avg_fitness", raised |-> FALSE,
                            after_restart |-> last_call.after_restart, value |-> value]
    /\ fitness_cache' = IF avg_cache # <<>> THEN fitness_cache
                        ELSE CacheAfterFitness(heap, fitness_cache, Range(population))
    /\ UNCHANGED <<heap, population, generation, sd_cache, best_individuals, config,
                   args, sampler, fitness_asked, run>>

\* population.sd_fitness() under @lru_cache; it calls avg_fitness() when the
\* population has at least 2 individuals.
SdFitness ==
    /\ ~last_call.raised
    /\ LET computed == sd_cache = <<>>
           uses_avg == computed /\ Len(population) >= 2
           cache1 == IF uses_avg
                     THEN CacheAfterFitness(heap, fitness_cache, Range(population))
                     ELSE fitness_cache
           avg == IF avg_cache # <<>> THEN avg_cache[1]
                  ELSE Population_avg_fitness(heap, cache1, population)
           value == IF ~computed THEN sd_cache[1]
                    ELSE Population_sd_fitness(heap, cache1, population, avg)
       IN  /\ sd_cache' = <<value>>
           /\ avg_cache' = IF uses_avg THEN <<avg>> ELSE avg_cache
           /\ fitness_cache' = cache1
           /\ last_call' = [op |-> "sd_fitness", raised |-> FALSE,
                            after_restart |-> last_call.after_restart, value |-> value]
    /\ UNCHANGED <<heap, population, generation, best_individuals, config,
                   args, sampler, fitness_asked, run>>

\* A population evolved generation after generation, restarted at any time.
Next == Evolve \/ RestartPopulation

Spec == Init /\ [][Next]_vars

(* -------------------------------- C1 ---------------------------------- *)
\* C1: after every evolve(), with any mating and any survivor selector, the
\* population holds the configured population_size individuals (also when a
\* selector raised and evolve() did not complete).
PopulationSizeKept == Len(population) = config.population_size

\* A second generation was produced by an evolve() that had more candidates
\* (parents and breed) than places.
PopulationSizeKeptWitness ==
    /\ last_call.op = "evolve" /\ ~last_call.raised
    /\ generation = 3
    /\ config.population_size = 2
    /\ config.num_parent_pairs * config.breed_size = 2

(* -------------------------------- C8 ---------------------------------- *)
\* C8: no Individual object is held by two slots of the population.  (Every
\* individual owns the chromosome object made for it by deepcopy or by the
\* recombiner, so two slots share a chromosome object exactly when they hold
\* the same individual.)  The elitist merge breaks it: on equal fitness it
\* appends the breed entry and passes over the parent, so the same breed entry
\* is appended again.
NoSharedIndividual ==
    \A i, j \in 1..Len(population) : i # j => population[i] # population[j]

(* -------------------------------- C4 ---------------------------------- *)
\* A population whose mean and standard deviation of fitness are asked between
\* the generations and the restarts.
InitStats ==
    /\ config \in Configs({"BestFitness"}, {"BestFitness"}, {0})
    /\ InitPopulation
    /\ run = NoValue

NextStats == Evolve \/ RestartPopulation \/ AvgFitness \/ SdFitness

SpecStats == InitStats /\ [][NextStats]_vars

\* The fitness of the chromosomes the population holds now.
CurrentFitness == [id \in DOMAIN heap |-> FitnessComputer_fitness(heap[id].chromosome)]

\* C4: after restart_population(), avg_fitness() and sd_fitness() return the mean
\* and the standard deviation of the fitness of the reinitialized chromosomes.
\* The code returns values computed from the memoized fitness of the chromosomes
\* that were replaced: initialize() does not clear the fitness cache.
RestartThenStatsAreCurrent ==
    LET avg == Population_avg_fitness(heap, CurrentFitness, population)
        sd == Population_sd_fitness(heap, CurrentFitness, population, avg)
    IN  /\ (last_call.op = "avg_fitness" /\ last_call.after_restart)
              => last_call.value.sum * avg.n = avg.sum * last_call.value.n
        /\ (last_call.op = "sd_fitness" /\ last_call.after_restart)
              => last_call.value.num * sd.den = sd.num * last_call.value.den

(* ----------------------------- C3, C5 --------------------------------- *)
\* Individuals driven one call at a time, outside any population.
MaxIndividuals == 3

InitIndividual ==
    /\ \E n \in 1..2 : heap \in [1..n -> [chromosome : Chromosome_initialize, generation : {1}]]
    /\ fitness_cache = EmptyFunction
    /\ fitness_asked = {}
    /\ population = <<>>
    /\ generation = 1
    /\ avg_cache = <<>>
    /\ sd_cache = <<>>
    /\ best_individuals = <<>>
    /\ config = NoValue
    /\ last_call = NoCall
    /\ run = NoValue
    /\ args = NoValue
    /\ sampler = NoValue

IndividualCall(op, value) ==
    [op |-> op, raised |-> FALSE, after_restart |-> FALSE, value |-> value]

\* individual.initialize(): the chromosome re-initializes itself; the cache of
\* fitness is not touched.
Individual_initialize ==
    /\ \E id \in DOMAIN heap, c \in Chromosome_initialize :
         /\ heap' = [heap EXCEPT ![id].chromosome = c]
         /\ fitness_asked' = fitness_asked \ {id}
         /\ last_call' = IndividualCall("initialize", [individual |-> id])
    /\ UNCHANGED <<fitness_cache, population, generation, avg_cache, sd_cache,
                   best_individuals, config, args, sampler, run>>

\* individual.fitness() under @lru_cache: the stored value when the cache has an
\* entry for this individual, else the FitnessComputer is invoked and its value stored.
Individual_fitness_call ==
    /\ \E id \in DOMAIN heap :
         /\ fitness_cache' = CacheAfterFitness(heap, fitness_cache, {id})
         /\ fitness_asked' = fitness_asked \cup {id}
         /\ last_call' = IndividualCall("fitness",
                             [individual |-> id,
                              fitness |-> Individual_fitness(heap, fitness_cache, id),
                              invoked |-> id \notin DOMAIN fitness_cache,
                              asked_before |-> id \in fitness_asked])
    /\ UNCHANGED <<heap, population, generation, avg_cache, sd_cache,
                   best_individuals, config, args, sampler, run>>

\* individual.self_mutate(): the mutator changes the chromosome in place, then
\* fitness.cache_clear() empties the cache, which all individuals share.
Individual_self_mutate ==
    /\ \E id \in DOMAIN heap :
         \E c \in Mutator_mutate_inplace(heap[id].chromosome) :
           /\ heap' = [heap EXCEPT ![id].chromosome = c]
           /\ fitness_asked' = fitness_asked \ {id}
           /\ last_call' = IndividualCall("self_mutate", [individual |-> id])
    /\ fitness_cache' = EmptyFunction
    /\ UNCHANGED <<population, generation, avg_cache, sd_cache,
                   best_individuals, config, args, sampler, run>>

\* individual.chromosome = new_chromosome: cache_clear(), then the replacement.
Individual_chromosome_setter ==
    /\ \E id \in DOMAIN heap, c \in Chromosomes :
         /\ heap' = [heap EXCEPT ![id].chromosome = c]
         /\ fitness_asked' = fitness_asked \ {id}
         /\ last_call' = IndividualCall("chromosome", [individual |-> id])
    /\ fitness_cache' = EmptyFunction
    /\ UNCHANGED <<population, generation, avg_cache, sd_cache,
                   best_individuals, config, args, sampler, run>>

\* individual.recombine(other): a new individual of generation self.generation + 1
\* made by new_individual, whose chromosome assignment clears the shared cache.
Individual_recombine ==
    /\ Cardinality(DOMAIN heap) < MaxIndividuals
    /\ \E id \in DOMAIN heap, other \in DOMAIN heap :
         \E c \in Recombiner_recombine(heap[id].chromosome, heap[other].chromosome) :
           LET new == FreshIds(DOMAIN heap, 1)[1]
           IN  /\ heap' = heap @@ (new :> [chromosome |-> c,
                                           generation |-> heap[id].generation + 1])
               /\ last_call' = IndividualCall("recombine",
                                   [individual |-> new, self |-> id, other |-> other])
    /\ fitness_cache' = EmptyFunction
    /\ UNCHANGED <<fitness_asked, population, generation, avg_cache, sd_cache,
                   best_individuals, config, args, sampler, run>>

NextIndividual ==
    \/ Individual_initialize
    \/ Individual_fitness_call
    \/ Individual_self_mutate
    \/ Individual_chromosome_setter
    \/ Individual_recombine

SpecIndividual == InitIndividual /\ [][NextIndividual]_vars

\* C3: fitness() returns the FitnessComputer's value for the chromosome the
\* individual holds now, also after initialize(), self_mutate() or a replacement
\* of the chromosome.  The code returns the memoized value of the previous
\* chromosome after initialize().
FitnessOfCurrentChromosome ==
    last_call.op = "fitness" =>
        last_call.value.fitness =
            FitnessComputer_fitness(heap[last_call.value.individual].chromosome)

\* C5: a fitness() call on an individual whose fitness() was already called and
\* whose chromosome was not modified since does not invoke the FitnessComputer
\* again, whatever was done to other individuals in between.  The code clears
\* the memo of every individual when any individual is mutated or created.
FitnessComputedOnce ==
    (last_call.op = "fitness" /\ last_call.value.asked_before) =>
        ~last_call.value.invoked

(* -------------------------------- C2 ---------------------------------- *)
\* The loop of KBestFitnessSolutionSelector.update_individuals over the two sorted
\* lists: an entry of the result is an archived individual kept as it is, or a
\* deep copy to make of a population member.  The archive wins the ties.
\* A merge that promotes the population member itself, not a deep copy of it.
RECURSIVE KBestMerge_NoCopy(_, _, _, _, _, _, _, _)
KBestMerge_NoCopy(number_solutions, population_list, archive, maximize_fitness, f, i, j, new_best) ==
    IF Len(new_best) >= number_solutions THEN new_best
    ELSE IF i = Len(population_list) /\ j = Len(archive) THEN new_best
    ELSE LET keep == Append(new_best, [copy |-> FALSE, individual |-> archive[j + 1]])
             promote == Append(new_best, [copy |-> FALSE, individual |-> population_list[i + 1]])
         IN  IF i = Len(population_list)
             THEN KBestMerge_NoCopy(number_solutions, population_list, archive,
                             maximize_fitness, f, i, j + 1, keep)
             ELSE IF j = Len(archive)
             THEN KBestMerge_NoCopy(number_solutions, population_list, archive,
                             maximize_fitness, f, i + 1, j, promote)
             ELSE IF (IF maximize_fitness
                      THEN f[archive[j + 1]] >= f[population_list[i + 1]]
                      ELSE f[archive[j + 1]] <= f[population_list[i + 1]])
             THEN KBestMerge_NoCopy(number_solutions, population_list, archive,
                             maximize_fitness, f, i, j + 1, keep)
             ELSE KBestMerge_NoCopy(number_solutions, population_list, archive,
                             maximize_fitness, f, i + 1, j, promote)

RECURSIVE KBestMerge(_, _, _, _, _, _, _, _)
KBestMerge(number_solutions, population_list, archive, maximize_fitness, f, i, j, new_best) ==
    IF Len(new_best) >= number_solutions THEN new_best
    ELSE IF i = Len(population_list) /\ j = Len(archive) THEN new_best
    ELSE LET keep == Append(new_best, [copy |-> FALSE, individual |-> archive[j + 1]])
             promote == Append(new_best, [copy |-> TRUE, individual |-> population_list[i + 1]])
         IN  IF i = Len(population_list)
             THEN KBestMerge(number_solutions, population_list, archive,
                             maximize_fitness, f, i, j + 1, keep)
             ELSE IF j = Len(archive)
             THEN KBestMerge(number_solutions, population_list, archive,
                             maximize_fitness, f, i + 1, j, promote)
             ELSE IF (IF maximize_fitness
                      THEN f[archive[j + 1]] >= f[population_list[i + 1]]
                      ELSE f[archive[j + 1]] <= f[population_list[i + 1]])
             THEN KBestMerge(number_solutions, population_list, archive,
                             maximize_fitness, f, i, j + 1, keep)
             ELSE KBestMerge(number_solutions, population_list, archive,
                             maximize_fitness, f, i + 1, j, promote)

\* KBestFitnessSolutionSelector.update_individuals(population): both lists are
\* sorted in place by fitness(), best first for the direction, then merged.
\* The result gives the new heap (deep copies are new objects, with no entry
\* in the fitness cache), the cache, the sorted population, the new archive and,
\* for every deep copy, the population member it was made from.
KBestFitnessSolutionSelector_update_individuals(h, cache, archive, population_list, number_solutions, maximize_fitness) ==
    LET cache1 == CacheAfterFitness(h, cache, Range(archive) \cup Range(population_list))
        sorted_archive == SortByFitness(archive, cache1, maximize_fitness)
        sorted_population == SortByFitness(population_list, cache1, maximize_fitness)
        merged == KBestMerge(number_solutions, sorted_population, sorted_archive,
                             maximize_fitness, cache1, 0, 0, <<>>)
        copies == {k \in 1..Len(merged) : merged[k].copy}
        ids == FreshIds(DOMAIN h, Cardinality(copies))
        \* the position of entry k among the copies
        rank(k) == Cardinality({c \in copies : c <= k})
        new_best == [k \in 1..Len(merged) |->
                        IF merged[k].copy THEN ids[rank(k)] ELSE merged[k].individual] \o <<>>
        \* the population member each deep copy was made from
        copied_from == [id \in {new_best[k] : k \in copies} |->
                          merged[CHOOSE k \in copies : new_best[k] = id].individual]
                       @@ EmptyFunction
        h1 == h @@ [id \in DOMAIN copied_from |-> h[copied_from[id]]]
    IN  [heap |-> h1, cache |-> cache1, population |-> sorted_population,
         best_individuals |-> new_best, copied_from |-> copied_from]

\* solution_selector.update_individuals(population.population)
UpdateIndividuals ==
    /\ ~last_call.raised
    /\ LET o == KBestFitnessSolutionSelector_update_individuals(
                    heap, fitness_cache, best_individuals, population,
                    config.number_solutions, config.maximize_fitness)
       IN  /\ population' = o.population
           /\ best_individuals' = o.best_individuals
           /\ heap' = Restrict(o.heap, Live(o.population, o.best_individuals))
           /\ fitness_cache' = Restrict(o.cache, Live(o.population, o.best_individuals))
    /\ last_call' = [op |-> "update_individuals", raised |-> FALSE,
                     after_restart |-> last_call.after_restart, value |-> NoValue]
    /\ UNCHANGED <<generation, avg_cache, sd_cache, config, args, sampler, fitness_asked, run>>

\* A population evolved and restarted, its best individuals archived.
InitArchive ==
    /\ config \in Configs({"BestFitness"}, {"BestFitness"}, 1..MaxSolutions)
    /\ InitPopulation
    /\ run = NoValue

\* The order of the loop of run_experiment: evolve(), update_individuals(), and
\* restart_population() when the standard deviation stayed at zero.
NextArchive ==
    \/ last_call.op # "evolve" /\ Evolve
    \/ last_call.op = "evolve" /\ UpdateIndividuals
    \/ last_call.op = "update_individuals" /\ RestartPopulation

SpecArchive == InitArchive /\ [][NextArchive]_vars

\* C2: after an update the archive holds at most number_solutions individuals,
\* sorted best first for the configured direction by what fitness() returns.
\* The code can leave it unsorted: a population member promoted on a stale
\* fitness memo is deep-copied, and the copy's fitness() is computed afresh.
ArchiveBoundedAndSorted ==
    last_call.op = "update_individuals" =>
        /\ Len(best_individuals) <= config.number_solutions
        /\ \A i, j \in 1..Len(best_individuals) :
              i < j =>
                LET fi == Individual_fitness(heap, fitness_cache, best_individuals[i])
                    fj == Individual_fitness(heap, fitness_cache, best_individuals[j])
                IN  IF config.maximize_fitness THEN fi >= fj ELSE fi <= fj

(* ------------------------------ C6, C7 -------------------------------- *)
\* One call of a survivor selector on lists of individuals of any fitness.
MaxParents == 3

InitSurvivor ==
    /\ \E np \in 0..MaxParents, nb \in 0..MaxBreed :
         /\ np + nb >= 1
         /\ heap \in [1..(np + nb) -> [chromosome : Chromosomes, generation : {1}]]
         /\ \E size \in 1..(np + nb), maximize \in BOOLEAN, selector \in SurvivorSelectors :
              args = [selector |-> selector,
                      population_size |-> size,
                      parents |-> [k \in 1..np |-> k],
                      breed |-> [k \in 1..nb |-> np + k],
                      maximize_fitness |-> maximize]
    /\ fitness_cache = EmptyFunction
    /\ fitness_asked = {}
    /\ population = <<>>
    /\ generation = 1
    /\ avg_cache = <<>>
    /\ sd_cache = <<>>
    /\ best_individuals = <<>>
    /\ config = NoValue
    /\ last_call = NoCall
    /\ run = NoValue
    /\ sampler = NoValue

\* selector.select_survivors(population_size, parents, breed, maximize_fitness).
\* BestFitnessSurvivorSelector sorts the two lists it is given in place.
SelectSurvivorsCall ==
    /\ last_call.op = "init"
    /\ LET all == Range(args.parents) \cup Range(args.breed)
           f == CacheAfterFitness(heap, fitness_cache, all)
       IN  /\ \E o \in SelectSurvivors(args.selector, args.population_size, args.parents,
                                         args.breed, args.maximize_fitness, f, heap) :
                 last_call' = [op |-> "select_survivors", raised |-> o.raised,
                               after_restart |-> FALSE,
                               value |-> [survivors |-> o.survivors]]
           /\ fitness_cache' = f
           /\ args' = IF args.selector = "BestFitness"
                      THEN [args EXCEPT
                              !.parents = SortByFitness(args.parents, f, args.maximize_fitness),
                              !.breed = SortByFitness(args.breed, f, args.maximize_fitness)]
                      ELSE args
    /\ UNCHANGED <<heap, population, generation, avg_cache, sd_cache, best_individuals,
                   config, sampler, fitness_asked, run>>

NextSurvivor == SelectSurvivorsCall

SpecSurvivor == InitSurvivor /\ [][NextSurvivor]_vars

\* The fitness values of the individuals of a list, in the order of the list.
FitnessValues(s) == [k \in 1..Len(s) |-> CurrentFitness[s[k]]]

\* The call under test is a BestFitnessSurvivorSelector call that has returned.
ElitistReturned ==
    /\ last_call.op = "select_survivors"
    /\ args.selector = "BestFitness"

\* C6: the survivors of BestFitnessSurvivorSelector contain an individual whose
\* fitness is the best (highest when maximizing, lowest when minimizing) among
\* parents and breed.  The code compares "higher is better" in both directions.
ElitistKeepsBest ==
    ElitistReturned =>
        LET all == Range(args.parents) \cup Range(args.breed)
            best == CHOOSE b \in all :
                       \A x \in all : IF args.maximize_fitness
                                      THEN CurrentFitness[b] >= CurrentFitness[x]
                                      ELSE CurrentFitness[b] <= CurrentFitness[x]
        IN  \E k \in 1..Len(last_call.value.survivors) :
               CurrentFitness[last_call.value.survivors[k]] = CurrentFitness[best]

\* C7: the fitness values of the survivors of BestFitnessSurvivorSelector are,
\* as a multiset, the population_size best values of parents plus breed in the
\* configured direction, ties included.
ElitistKeepsTopValues ==
    ElitistReturned =>
        LET all == args.parents \o args.breed
            ranked == SortByFitness(all, CurrentFitness, args.maximize_fitness)
            top == SubSeq(ranked, 1, IF args.population_size < Len(all)
                                     THEN args.population_size ELSE Len(all))
            survivors == SortByFitness(last_call.value.survivors, CurrentFitness,
                                       args.maximize_fitness)
        IN  FitnessValues(survivors) = FitnessValues(top)

(* ------------------------------ C9, C10 ------------------------------- *)
\* One Roulette built by a selector over a list of distinct individuals and
\* drawn from until it is empty.
MaxRouletteItems == 3

InitRoulette ==
    /\ \E n \in 0..MaxRouletteItems :
         /\ heap \in [1..n -> [chromosome : Chromosomes, generation : {1}]]
         /\ \E order \in Shuffles([k \in 1..n |-> k]), maximize \in BOOLEAN :
              args = [population |-> order, maximize_fitness |-> maximize]
    /\ sampler = NoValue
    /\ fitness_cache = EmptyFunction
    /\ fitness_asked = {}
    /\ population = <<>>
    /\ generation = 1
    /\ avg_cache = <<>>
    /\ sd_cache = <<>>
    /\ best_individuals = <<>>
    /\ config = NoValue
    /\ last_call = NoCall
    /\ run = NoValue

\* roulette = Roulette(population, maximize_fitness), as RouletteMatingSelector and
\* RouletteSurvivorSelector build it: maximize_fitness lands in `replacement`.
\* The list given is sorted in place.  `built` keeps the items as constructed,
\* `drawn` what the roulette returned so far.
RouletteBuild ==
    /\ last_call.op = "init"
    /\ LET f == CacheAfterFitness(heap, fitness_cache, Range(args.population))
           roulette == Roulette_init(args.population, args.maximize_fitness, f)
       IN  /\ sampler' = [replacement |-> roulette.replacement,
                          built |-> roulette.items,
                          items |-> roulette.items,
                          drawn |-> <<>>]
           /\ args' = [args EXCEPT !.population = roulette.population]
           /\ fitness_cache' = f
    /\ last_call' = [op |-> "Roulette", raised |-> FALSE, after_restart |-> FALSE,
                     value |-> NoValue]
    /\ UNCHANGED <<heap, population, generation, avg_cache, sd_cache, best_individuals,
                   config, fitness_asked, run>>

\* roulette.get_individual()
RouletteGetIndividual ==
    /\ last_call.op \in {"Roulette", "get_individual"}
    /\ ~last_call.raised
    /\ \E o \in Roulette_get_individual(sampler.items) :
         /\ sampler' = [sampler EXCEPT
                          !.items = o.items,
                          !.drawn = IF o.raised THEN @ ELSE Append(@, o.individual)]
         /\ last_call' = [op |-> "get_individual", raised |-> o.raised,
                          after_restart |-> FALSE,
                          value |-> [individual |-> o.individual]]
    /\ UNCHANGED <<heap, fitness_cache, population, generation, avg_cache, sd_cache,
                   best_individuals, config, args, fitness_asked, run>>

NextRoulette == RouletteBuild \/ RouletteGetIndividual

SpecRoulette == InitRoulette /\ [][NextRoulette]_vars

\* The roulette has been built.
RouletteBuilt == last_call.op \in {"Roulette", "get_individual"}

\* C9: the individuals a roulette returned are pairwise distinct and members of
\* the population it was built from, whatever the fitness values (all zero
\* included).
RouletteNeverRepeats ==
    RouletteBuilt =>
        /\ \A i, j \in 1..Len(sampler.drawn) :
              i # j => sampler.drawn[i] # sampler.drawn[j]
        /\ Range(sampler.drawn) \subseteq Range(args.population)

\* Every individual has fitness zero and the roulette has returned all of them.
RouletteAllZeroDrained ==
    /\ RouletteBuilt
    /\ Len(args.population) = MaxRouletteItems
    /\ \A id \in Range(args.population) : CurrentFitness[id] = 0
    /\ Len(sampler.drawn) = Len(args.population)

\* The selection weight of the k-th item of a roulette as built: the width of
\* its bucket.
RouletteWeight(items, k) ==
    items[k].acc_probability - (IF k = 1 THEN 0 ELSE items[k - 1].acc_probability)

\* C10: the weights follow the direction the selector passes: built for a
\* minimize problem, an individual of lower fitness has a weight at least that
\* of any individual of higher fitness; built for maximize, the higher fitness
\* has the larger weight.  The code weighs by the fitness itself in both cases.
RouletteDirectionAware ==
    RouletteBuilt =>
        \A a, b \in 1..Len(sampler.built) :
            LET fa == CurrentFitness[sampler.built[a].individual]
                fb == CurrentFitness[sampler.built[b].individual]
                better == IF args.maximize_fitness THEN fa > fb ELSE fa < fb
            IN  better => RouletteWeight(sampler.built, a) >= RouletteWeight(sampler.built, b)

(* ------------------------------ C11, C12 ------------------------------ *)
\* The individuals a get_individual() call on the roulette can return now.
RoulettePossible ==
    {o.individual : o \in {x \in Roulette_get_individual(sampler.items) : ~x.raised}}

\* C11: when every individual of a non-empty roulette has fitness zero, the
\* call raises nothing and any individual still in the roulette can be the
\* result.  The code draws r = 0, and 0 <= acc_probability selects the first
\* item every time: the fallback to randint is never taken.
RouletteZeroIsUniform ==
    (/\ RouletteBuilt
     /\ sampler.items # <<>>
     /\ \A id \in Range(args.population) : CurrentFitness[id] = 0)
    => /\ \A o \in Roulette_get_individual(sampler.items) : ~o.raised
       /\ RoulettePossible = {sampler.items[k].individual : k \in 1..Len(sampler.items)}

\* C12: a roulette built with replacement leaves its items as they are on
\* get_individual(), so that any number of draws from a non-empty population
\* succeeds.  The code removes the item drawn whatever `replacement` is, and a
\* draw from the emptied roulette raises IndexError.
RouletteWithReplacementKeepsItems ==
    (/\ last_call.op = "get_individual"
     /\ sampler.replacement
     /\ args.population # <<>>)
    => /\ ~last_call.raised
       /\ sampler.items = sampler.built

(* --------------------------- C13, C14, C15 ---------------------------- *)
\* One call of a mating selector on a list of distinct individuals of any fitness.
MaxMatingPopulation == 3
MaxPairs == 2

InitMating ==
    /\ \E n \in 0..MaxMatingPopulation :
         /\ heap \in [1..n -> [chromosome : Chromosomes, generation : {1}]]
         /\ \E selector \in MatingSelectors, num_pairs \in 0..MaxPairs, maximize \in BOOLEAN :
              args = [selector |-> selector,
                      population |-> [k \in 1..n |-> k],
                      num_pairs |-> num_pairs,
                      maximize_fitness |-> maximize]
    /\ fitness_cache = EmptyFunction
    /\ fitness_asked = {}
    /\ population = <<>>
    /\ generation = 1
    /\ avg_cache = <<>>
    /\ sd_cache = <<>>
    /\ best_individuals = <<>>
    /\ config = NoValue
    /\ last_call = NoCall
    /\ run = NoValue
    /\ sampler = NoValue

\* selector.select_couples(population, num_pairs, maximize_fitness): the list is
\* left as the selector sorted or shuffled it.
SelectCouplesCall ==
    /\ last_call.op = "init"
    /\ LET f == CacheAfterFitness(heap, fitness_cache, Range(args.population))
       IN  \E o \in SelectCouples(args.selector, args.population, args.num_pairs,
                                   args.maximize_fitness, f) :
             /\ last_call' = [op |-> "select_couples", raised |-> o.raised,
                              after_restart |-> FALSE, value |-> [couples |-> o.couples]]
             /\ args' = [args EXCEPT !.population = o.population]
             /\ fitness_cache' = CacheAfterFitness(heap, fitness_cache, o.called)
    /\ UNCHANGED <<heap, population, generation, avg_cache, sd_cache, best_individuals,
                   config, sampler, fitness_asked, run>>

NextMating == SelectCouplesCall

SpecMating == InitMating /\ [][NextMating]_vars

\* The call under test is a select_couples call of the selector that has ended.
MatingEnded(selector) ==
    /\ last_call.op = "select_couples"
    /\ args.selector = selector

\* C13: BestFitnessMatingSelector on 2 or more individuals returns, without
\* error, at most num_pairs couples, the k-th made of the individuals of rank
\* 2k and 2k+1 (from 0) of the fitness ranking of the direction.  The code
\* indexes past the end of the list when 2 * num_pairs exceeds its length.
BestFitnessPairsRanked ==
    (MatingEnded("BestFitness") /\ Len(args.population) >= 2) =>
        LET ranked == SortByFitness(args.population, CurrentFitness, args.maximize_fitness)
            couples == last_call.value.couples
        IN  /\ ~last_call.raised
            /\ Len(couples) <= args.num_pairs
            /\ \A k \in 1..Len(couples) :
                  /\ 2 * k <= Len(ranked)
                  /\ CurrentFitness[couples[k][1]] = CurrentFitness[ranked[2 * k - 1]]
                  /\ CurrentFitness[couples[k][2]] = CurrentFitness[ranked[2 * k]]

\* C14: RouletteMatingSelector on 2 or more distinct individuals ends without
\* error with exactly num_pairs couples of two different members of the
\* population.  The code draws without replacement, so the roulette is empty
\* after len(population) draws and the next draw raises IndexError.
RoulettePairsComplete ==
    (MatingEnded("Roulette") /\ Len(args.population) >= 2) =>
        LET couples == last_call.value.couples
        IN  /\ ~last_call.raised
            /\ Len(couples) = args.num_pairs
            /\ \A k \in 1..Len(couples) :
                  /\ couples[k][1] # couples[k][2]
                  /\ {couples[k][1], couples[k][2]} \subseteq Range(args.population)

\* C15: every mating selector returns an empty list of couples, without error,
\* for a population of 0 or 1 individuals, whatever num_pairs is.
NoCouplesFromOneOrNone ==
    (last_call.op = "select_couples" /\ Len(args.population) <= 1) =>
        /\ ~last_call.raised
        /\ last_call.value.couples = <<>>

\* A selector was asked for MaxPairs couples from a single individual.
NoCouplesFromOneOrNoneWitness ==
    /\ MatingEnded("BestFitness")
    /\ Len(args.population) = 1
    /\ args.num_pairs = MaxPairs
    /\ last_call.value.couples = <<>>

(* --------------------------- C16, C17, C18 ---------------------------- *)
\* C16: the archive is independent of the live population.  In every step an
\* archived individual is not a member of the population; an entry that was
\* archived before the step is the same object with the same chromosome; an
\* entry that is new is a new object, made by update_individuals as a copy of
\* a population member; and only update_individuals changes the archive.
ArchiveIndependent ==
    [][/\ Range(best_individuals') \cap Range(population') = {}
       /\ \A id \in Range(best_individuals') :
             IF id \in Range(best_individuals)
             THEN heap'[id] = heap[id]
             ELSE /\ id \notin DOMAIN heap
                  /\ last_call'.op = "update_individuals"
                  /\ \E p \in Range(population) : heap'[id] = heap[p]
       /\ last_call'.op # "update_individuals" => best_individuals' = best_individuals
      ]_vars

\* The population was restarted under a full archive, and an archived
\* chromosome is one that no member of the population holds.
ArchiveIndependentWitness ==
    /\ last_call.op = "restart_population"
    /\ Len(best_individuals) >= 2
    /\ \E id \in Range(best_individuals) :
         \A p \in Range(population) : heap[p].chromosome # heap[id].chromosome

\* a is at least as good as b for the direction.
AtLeastAsGood(a, b, maximize_fitness) == IF maximize_fitness THEN a >= b ELSE a <= b

\* The fitness of the chromosome of an individual of the heap h.
FitnessIn(h, id) == FitnessComputer_fitness(h[id].chromosome)

\* C17: the archive is monotonic.  In an update_individuals() step every
\* position that was filled stays filled with a fitness at least as good as
\* before; an entry leaves only when number_solutions entries at least as good
\* are kept; and an entry that leaves is only displaced by new entries that are
\* strictly better.  The code merges on stale fitness memos of the population.
ArchiveMonotonic ==
    [][last_call'.op = "update_individuals" =>
         /\ \A k \in 1..Len(best_individuals) :
               /\ k <= Len(best_individuals')
               /\ AtLeastAsGood(FitnessIn(heap', best_individuals'[k]),
                                FitnessIn(heap, best_individuals[k]),
                                config.maximize_fitness)
         /\ \A id \in Range(best_individuals) \ Range(best_individuals') :
               /\ Len(best_individuals') = config.number_solutions
               /\ \A kept \in Range(best_individuals') :
                     AtLeastAsGood(FitnessIn(heap', kept), FitnessIn(heap, id),
                                   config.maximize_fitness)
               /\ \A new \in Range(best_individuals') \ Range(best_individuals) :
                     FitnessIn(heap', new) # FitnessIn(heap, id)
      ]_vars

\* KBestFitnessSolutionSelector.best_individual: the last entry of the archive.
KBestFitnessSolutionSelector_best_individual(archive) == archive[Len(archive)]

\* C18: best_individual of a non-empty archive has a fitness at least as good,
\* for the direction, as every archived entry.  The code returns the last
\* entry of the list it keeps sorted best first.
BestIndividualIsBest ==
    best_individuals # <<>> =>
        \A k \in 1..Len(best_individuals) :
            AtLeastAsGood(
                FitnessIn(heap, KBestFitnessSolutionSelector_best_individual(best_individuals)),
                FitnessIn(heap, best_individuals[k]),
                config.maximize_fitness)

(* -------------------------------- C19 --------------------------------- *)
\* Floats are counted in halves of EPS, so that values closer than EPS, at EPS
\* and farther than EPS from each other exist; one unit of fitness is 5 EPS.
EPS == 2
FitnessUnit == 5 * EPS

Abs(x) == IF x < 0 THEN 0 - x ELSE x

\* float_equal(f1, f2): abs(f1 - f2) < EPS
float_equal(f1, f2) == Abs(f1 - f2) < EPS

\* float_less_equal(f1, f2): float_equal(f1, f2) or f1 < f2
float_less_equal(f1, f2) == float_equal(f1, f2) \/ f1 < f2

\* The target fitness values tried: around every fitness value, nearer than
\* EPS, at EPS and beyond.
Targets ==
    {FitnessUnit * FitnessComputer_fitness(c) + d : c \in Chromosomes, d \in (0 - EPS - 1)..(EPS + 1)}

\* The end of a generation with an archive as update_individuals leaves it when
\* no fitness memo is stale: sorted best first for the direction.
InitTarget ==
    /\ \E n \in 1..MaxSolutions, maximize \in BOOLEAN :
         /\ heap \in [1..n -> [chromosome : Chromosomes, generation : {1}]]
         /\ best_individuals = [k \in 1..n |-> k]
         /\ \A i, j \in 1..n :
               i < j => AtLeastAsGood(FitnessIn(heap, i), FitnessIn(heap, j), maximize)
         /\ \E target_set \in BOOLEAN, target \in Targets :
               args = [target_set |-> target_set,
                       target_fitness |-> IF target_set THEN target ELSE 0,
                       maximize_fitness |-> maximize]
    /\ fitness_cache = EmptyFunction
    /\ fitness_asked = {}
    /\ population = <<>>
    /\ generation = 1
    /\ avg_cache = <<>>
    /\ sd_cache = <<>>
    /\ config = NoValue
    /\ last_call = NoCall
    /\ run = NoValue
    /\ sampler = NoValue

\* run_experiment, the target test at the end of a generation:
\*   self.target_fitness is not None and
\*   float_less_equal(self.target_fitness, solution_selector.best_individual.fitness())
TargetCheck ==
    /\ last_call.op = "init"
    /\ LET best_individual == KBestFitnessSolutionSelector_best_individual(best_individuals)
           stop == /\ args.target_set
                   /\ float_less_equal(
                          args.target_fitness,
                          FitnessUnit * Individual_fitness(heap, fitness_cache, best_individual))
       IN  /\ last_call' = [op |-> "target_check", raised |-> FALSE,
                            after_restart |-> FALSE, value |-> [stop |-> stop]]
           /\ fitness_cache' = IF args.target_set
                               THEN CacheAfterFitness(heap, fitness_cache, {best_individual})
                               ELSE fitness_cache
    /\ UNCHANGED <<heap, population, generation, avg_cache, sd_cache, best_individuals,
                   config, args, sampler, fitness_asked, run>>

NextTarget == TargetCheck

SpecTarget == InitTarget /\ [][NextTarget]_vars

\* The best fitness of the archive for the direction, in halves of EPS.
BestArchivedFitness ==
    LET best == CHOOSE b \in Range(best_individuals) :
                   \A x \in Range(best_individuals) :
                      AtLeastAsGood(FitnessIn(heap, b), FitnessIn(heap, x),
                                    args.maximize_fitness)
    IN  FitnessUnit * FitnessIn(heap, best)

\* C19: with a target set, the run stops for the target when the best archived
\* fitness is better than the target for the direction or less than EPS from
\* it, and does not when it is worse by more than EPS; with no target it does
\* not stop for the target.  The code tests target <= fitness whatever the
\* direction, on the last entry of the archive.
TargetStopFollowsDirection ==
    last_call.op = "target_check" =>
        LET worse_by == IF args.maximize_fitness
                        THEN args.target_fitness - BestArchivedFitness
                        ELSE BestArchivedFitness - args.target_fitness
            stop == last_call.value.stop
        IN  IF args.target_set
            THEN /\ worse_by < EPS => stop
                 /\ worse_by > EPS => ~stop
            ELSE ~stop

(* -------------------------------- C20 --------------------------------- *)
\* The generations of a run and the stagnation test that ends each of them.
MaxTolerance == 2

InitStagnation ==
    /\ config \in Configs({"BestFitness"}, {"BestFitness"}, {0})
    /\ InitPopulation
    /\ \E tolerance_set \in BOOLEAN, tolerance \in 1..MaxTolerance :
         run = [zero_sd_counter |-> 0,
                tolerance_set |-> tolerance_set,
                restart_zero_sd_tolerance |-> IF tolerance_set THEN tolerance ELSE 0,
                restarted |-> FALSE,
                previous_restarted |-> FALSE]

\* run_experiment, the end of a generation:
\*   if float_equal(population.sd_fitness(), 0.0): zero_sd_counter += 1
\*   else: zero_sd_counter = 0
\*   if restart_zero_sd_tolerance is not None
\*       and zero_sd_counter >= restart_zero_sd_tolerance: population.restart_population()
\* sd_fitness() is memoized as in SdFitness; restart_population() as in
\* RestartPopulation.  `restarted` and `previous_restarted` record whether this
\* test and the one of the generation before called restart_population().
StagnationCheck ==
    /\ ~last_call.raised
    /\ LET computed == sd_cache = <<>>
           uses_avg == computed /\ Len(population) >= 2
           cache1 == IF uses_avg
                     THEN CacheAfterFitness(heap, fitness_cache, Range(population))
                     ELSE fitness_cache
           avg == IF avg_cache # <<>> THEN avg_cache[1]
                  ELSE Population_avg_fitness(heap, cache1, population)
           sd == IF ~computed THEN sd_cache[1]
                 ELSE Population_sd_fitness(heap, cache1, population, avg)
           \* the deviation of integer fitness values is 0 or far above EPS
           zero_sd == sd.num = 0
           counter == IF zero_sd THEN run.zero_sd_counter + 1 ELSE 0
           restart == run.tolerance_set /\ counter >= run.restart_zero_sd_tolerance
       IN  /\ fitness_cache' = cache1
           /\ IF restart
              THEN /\ \E new \in [Range(population) -> Chromosome_initialize] :
                        heap' = [id \in DOMAIN heap |->
                                   IF id \in Range(population)
                                   THEN [heap[id] EXCEPT !.chromosome = new[id]]
                                   ELSE heap[id]]
                   /\ avg_cache' = <<>>
                   /\ sd_cache' = <<>>
              ELSE /\ heap' = heap
                   /\ avg_cache' = IF uses_avg THEN <<avg>> ELSE avg_cache
                   /\ sd_cache' = <<sd>>
           /\ run' = [run EXCEPT !.zero_sd_counter = counter,
                                 !.restarted = restart,
                                 !.previous_restarted = run.restarted]
           /\ last_call' = [op |-> "stagnation_check", raised |-> FALSE,
                            after_restart |-> restart, value |-> [zero_sd |-> zero_sd]]
    /\ UNCHANGED <<population, generation, best_individuals, config, args, sampler,
                   fitness_asked>>

\* The loop of run_experiment: evolve(), then the stagnation test.
NextStagnation ==
    \/ last_call.op # "evolve" /\ Evolve
    \/ last_call.op = "evolve" /\ StagnationCheck

SpecStagnation == InitStagnation /\ [][NextStagnation]_vars

\* C20: when the stagnation test calls restart_population() the counter of
\* zero-deviation generations is 0 afterwards, and with a tolerance above 1
\* the tests of two consecutive generations do not both restart.  The code
\* never resets the counter after a restart.
RestartResetsStagnationCounter ==
    (last_call.op = "stagnation_check" /\ run.restarted) =>
        /\ run.zero_sd_counter = 0
        /\ run.restart_zero_sd_tolerance > 1 => ~run.previous_restarted

(* -------------------------------- C25 --------------------------------- *)
Max(a, b) == IF a >= b THEN a ELSE b

\* C25: recombine(other) returns a new Individual, different from both parents,
\* whose generation is max(self.generation, other.generation) + 1 and whose
\* fitness memo is empty.  The code gives it self.generation + 1, whatever the
\* generation of other.
RecombineGenerationAboveBothParents ==
    last_call.op = "recombine" =>
        LET v == last_call.value
        IN  /\ v.individual \notin {v.self, v.other}
            /\ v.individual \notin DOMAIN fitness_cache
            /\ heap[v.individual].generation =
                   Max(heap[v.self].generation, heap[v.other].generation) + 1

(* -------------------------------- C26 --------------------------------- *)
\* C26: self_mutate() changes only the chromosome and the fitness memo of the
\* individual it is called on, and recombine() changes neither parent: the
\* chromosome, the generation and the memo of every other individual, and of
\* both parents of a recombination, are after the call what they were before.
\* In the code both calls end in fitness.cache_clear(), which empties the memo
\* of every individual.
MutateAndRecombineFrame ==
    [][/\ last_call'.op = "self_mutate" =>
            \A id \in DOMAIN heap \ {last_call'.value.individual} :
               /\ heap'[id] = heap[id]
               /\ id \in DOMAIN fitness_cache => id \in DOMAIN fitness_cache'
       /\ last_call'.op = "recombine" =>
            \A id \in DOMAIN heap :
               /\ heap'[id] = heap[id]
               /\ id \in DOMAIN fitness_cache => id \in DOMAIN fitness_cache']_vars

(* -------------------------------- C27 --------------------------------- *)
\* C27: Population.generation is 1 for a new population, every evolve() call
\* that returns increases it by exactly 1, and restart_population() leaves it
\* unchanged together with the number and the identity of the Individual
\* objects of the population.
GenerationCountsEvolveCalls ==
    /\ generation = 1
    /\ [][/\ (last_call'.op = "evolve" /\ ~last_call'.raised) =>
               generation' = generation + 1
          /\ last_call'.op = "restart_population" =>
               /\ generation' = generation
               /\ population' = population]_vars

\* A population restarted after its first evolve().
GenerationCountsEvolveCallsWitness ==
    /\ last_call.op = "restart_population"
    /\ generation = 2
    /\ Len(population) = 2

(* -------------------------------- C29 --------------------------------- *)
\* Chromosome objects are the positions of the list args.chromosomes, each with
\* the value it holds.
MaxChromosomeObjects == 4

\* mutate() without the deep copy: the argument itself is mutated and returned.
Mutator_mutate_NoCopy(chromosomes, chromosome) ==
    {[chromosomes |-> [chromosomes EXCEPT ![chromosome] = m], result |-> chromosome] :
        m \in Mutator_mutate_inplace(chromosomes[chromosome])}

\* Mutator.mutate(chromosome):
\*   new_chromosome = deepcopy(chromosome); cls.mutate_inplace(new_chromosome)
\*   return new_chromosome
Mutator_mutate(chromosomes, chromosome) ==
    LET new_chromosome == Len(chromosomes) + 1
        copied == Append(chromosomes, chromosomes[chromosome])
    IN  {[chromosomes |-> [copied EXCEPT ![new_chromosome] = m], result |-> new_chromosome] :
            m \in Mutator_mutate_inplace(copied[new_chromosome])}

InitMutator ==
    /\ args \in [chromosomes : [1..1 -> Chromosome_initialize]]
    /\ heap = EmptyFunction
    /\ fitness_cache = EmptyFunction
    /\ fitness_asked = {}
    /\ population = <<>>
    /\ generation = 1
    /\ avg_cache = <<>>
    /\ sd_cache = <<>>
    /\ best_individuals = <<>>
    /\ config = NoValue
    /\ last_call = NoCall
    /\ run = NoValue
    /\ sampler = NoValue

\* A call of Mutator.mutate on one of the chromosomes that exist.
MutateCall ==
    /\ Len(args.chromosomes) < MaxChromosomeObjects
    /\ \E chromosome \in DOMAIN args.chromosomes :
         \E o \in Mutator_mutate(args.chromosomes, chromosome) :
           /\ args' = [chromosomes |-> o.chromosomes]
           /\ last_call' = [op |-> "mutate", raised |-> FALSE, after_restart |-> FALSE,
                            value |-> [chromosome |-> chromosome, result |-> o.result]]
    /\ UNCHANGED <<heap, fitness_cache, population, generation, avg_cache, sd_cache,
                   best_individuals, config, sampler, fitness_asked, run>>

NextMutator == MutateCall

SpecMutator == InitMutator /\ [][NextMutator]_vars

\* C29: Mutator.mutate(chromosome) returns a new chromosome object, the deep
\* copy of the argument after mutate_inplace, and leaves the argument (and every
\* other chromosome) as it was.
MutateReturnsMutatedCopy ==
    [][last_call'.op = "mutate" =>
         LET v == last_call'.value
         IN  /\ v.result \notin DOMAIN args.chromosomes
             /\ v.result \in DOMAIN args'.chromosomes
             /\ \A k \in DOMAIN args.chromosomes :
                  args'.chromosomes[k] = args.chromosomes[k]
             /\ args'.chromosomes[v.result] \in
                  Mutator_mutate_inplace(args.chromosomes[v.chromosome])]_vars

\* mutate() has returned a chromosome whose value differs from the argument's.
MutateReturnsMutatedCopyWitness ==
    /\ last_call.op = "mutate"
    /\ args.chromosomes[last_call.value.result] #
         args.chromosomes[last_call.value.chromosome]

(* -------------------------------- C30 --------------------------------- *)
\* population.evolve() as in Evolve, with the couples and the breed of its
\* offspring step kept in args: the children as they are at the end of
\* _offspring, the objects that existed before the call, and the population's
\* size and generation at the time of the call; `parents` is the population
\* list at the time of the call, `before` and `after` are the objects that
\* existed before the call as they were then and as the call leaves them.
EvolveOffspring ==
    /\ ~last_call.raised
    /\ generation <= MaxGeneration
    /\ \E o \in Population_evolve(heap, fitness_cache, population, generation, config) :
         /\ population' = o.population
         /\ generation' = o.generation
         /\ heap' = Restrict(o.heap, Live(o.population, best_individuals))
         /\ fitness_cache' = Restrict(o.cache, Live(o.population, best_individuals))
         /\ avg_cache' = IF o.raised THEN avg_cache ELSE <<>>
         /\ sd_cache' = IF o.raised THEN sd_cache ELSE <<>>
         /\ args' = [population_size |-> Len(population),
                     generation |-> generation,
                     existing |-> DOMAIN heap,
                     couples |-> o.couples,
                     breed |-> o.breed,
                     children |-> [k \in 1..Len(o.breed) |-> o.heap[o.breed[k]]] \o <<>>,
                     parents |-> population,
                     before |-> heap,
                     after |-> Restrict(o.heap, DOMAIN heap),
                     computed |-> o.computed]
         /\ last_call' = [op |-> "evolve", raised |-> o.raised, after_restart |-> FALSE,
                          value |-> NoValue]
    /\ UNCHANGED <<best_individuals, config, sampler, fitness_asked, run>>

InitOffspring ==
    /\ config \in Configs(MatingSelectors, {"BestFitness"}, {0})
    /\ InitPopulation
    /\ run = NoValue

NextOffspring == EvolveOffspring

SpecOffspring == InitOffspring /\ [][NextOffspring]_vars

\* C30: in evolve() on a population of at least 2 individuals every couple of
\* the mating selector produces breed_size children, so the breed has
\* (number of couples) x breed_size individuals; every child is a new object,
\* none of them an individual that existed before, and carries the generation
\* the population had when evolve() was called.
OffspringPerCouple ==
    (last_call.op = "evolve" /\ ~last_call.raised /\ args.population_size >= 2) =>
        /\ Len(args.breed) = Len(args.couples) * config.breed_size
        /\ \A k \in 1..Len(args.breed) :
             /\ args.breed[k] \notin args.existing
             /\ args.children[k].generation = args.generation
             /\ \A j \in 1..Len(args.breed) : j # k => args.breed[j] # args.breed[k]

\* The second evolve() of a population of 2: one couple with two children each,
\* stamped with generation 2.
OffspringPerCoupleWitness ==
    /\ last_call.op = "evolve"
    /\ ~last_call.raised
    /\ args.population_size >= 2
    /\ args.generation = 2
    /\ Len(args.couples) = 1
    /\ Len(args.breed) = 2

(* -------------------------------- C24 --------------------------------- *)
\* Classes are named by strings.  A base of a class statement is a class
\* (alias FALSE) or a subscripted generic such as Mutator[A] (alias TRUE, with
\* its type arguments; "TypeVar" stands for a type variable).
Base(cls) == [alias |-> FALSE, cls |-> cls, args |-> <<>>]

Alias(cls, type_args) == [alias |-> TRUE, cls |-> cls, args |-> type_args]

\* The chromosome classes: A and B derive from Chromosome, A1 from A.
ChromosomeClasses == {"A", "A1", "B"}

\* issubclass(cls, other) for a chromosome class cls.
issubclass(cls, other) ==
    other \in (CASE cls = "A" -> {"A", "Chromosome", "object"}
                 [] cls = "A1" -> {"A1", "A", "Chromosome", "object"}
                 [] cls = "B" -> {"B", "Chromosome", "object"})

\* The class statements.  "Strategy" stands for FitnessComputer, Mutator and
\* Recombiner, which are all declared (Generic[ChromosomeT], CustomDataHolder, ABC);
\* "Mixin" is a generic class of one parameter that is no strategy; the others
\* are strategy classes as a user may declare them.
ClassStatements ==
    [Generic |-> <<>>,
     ABC |-> <<>>,
     CustomDataHolder |-> <<Base("ABC")>>,
     Strategy |-> <<Alias("Generic", <<"TypeVar">>), Base("CustomDataHolder"), Base("ABC")>>,
     Mixin |-> <<Alias("Generic", <<"TypeVar">>)>>,
     ForA |-> <<Alias("Strategy", <<"A">>)>>,
     ForA1 |-> <<Alias("Strategy", <<"A1">>)>>,
     ForChromosome |-> <<Alias("Strategy", <<"Chromosome">>), Base("ABC")>>,
     SubOfForA |-> <<Base("ForA")>>,
     StillGeneric |-> <<Alias("Strategy", <<"TypeVar">>)>>,
     GenericForA |-> <<Alias("StillGeneric", <<"A">>)>>,
     SubOfStillGeneric |-> <<Base("StillGeneric")>>,
     SubOfStrategy |-> <<Base("Strategy")>>,
     SubOfForAWithMixin |-> <<Base("ForA"), Alias("Mixin", <<"int">>)>>,
     ForAWithObjectMixin |-> <<Alias("Strategy", <<"A">>), Alias("Mixin", <<"object">>)>>,
     Bare |-> <<>>]

StrategyClasses ==
    {"ForA", "ForA1", "ForChromosome", "SubOfForA", "StillGeneric", "GenericForA",
     "SubOfStillGeneric", "SubOfStrategy", "SubOfForAWithMixin", "ForAWithObjectMixin",
     "Bare"}

\* cls.__orig_bases__: the bases of the class statement when one of them is a
\* subscripted generic, else the attribute inherited from the first parent that
\* has it; <<>> when hasattr(cls, '__orig_bases__') is false.  typing.Generic has none.
RECURSIVE orig_bases(_)
orig_bases(cls) ==
    LET bases == ClassStatements[cls]
        RECURSIVE Inherited(_)
        Inherited(k) == IF k > Len(bases) THEN <<>>
                        ELSE IF orig_bases(bases[k].cls) # <<>>
                             THEN orig_bases(bases[k].cls)
                             ELSE Inherited(k + 1)
    IN  IF \E k \in 1..Len(bases) : bases[k].alias THEN bases ELSE Inherited(1)

\* is_correct_chromosome_type(cls, chromosome_cls): some type argument of some
\* original base is a class the chromosome class derives from, or the origin of
\* some subscripted base passes the test itself.
RECURSIVE is_correct_chromosome_type(_, _)
is_correct_chromosome_type(cls, chromosome_cls) ==
    IF orig_bases(cls) = <<>> THEN FALSE
    ELSE \E k \in 1..Len(orig_bases(cls)) :
           LET base == orig_bases(cls)[k]
           IN  \/ \E a \in 1..Len(base.args) :
                    /\ base.args[a] # "TypeVar"
                    /\ issubclass(chromosome_cls, base.args[a])
               \/ /\ base.alias
                  /\ is_correct_chromosome_type(base.cls, chromosome_cls)

InitConstruct ==
    /\ args \in [fitness_computer_cls : StrategyClasses,
                 mutator_cls : StrategyClasses,
                 recombiner_cls : StrategyClasses,
                 chromosome_cls : ChromosomeClasses]
    /\ heap = EmptyFunction
    /\ fitness_cache = EmptyFunction
    /\ fitness_asked = {}
    /\ population = <<>>
    /\ generation = 1
    /\ avg_cache = <<>>
    /\ sd_cache = <<>>
    /\ best_individuals = <<>>
    /\ config = NoValue
    /\ last_call = NoCall
    /\ run = NoValue
    /\ sampler = NoValue

\* Experiment.__init__: after storing its arguments it tests the fitness
\* computer, the mutator and the recombiner class in this order and raises
\* TypeError for the first that fails; config holds the attributes of the
\* Experiment when the constructor returned.
Experiment_init ==
    /\ last_call.op = "init"
    /\ LET classes_to_be_validated ==
               <<args.fitness_computer_cls, args.mutator_cls, args.recombiner_cls>>
           failed == {k \in 1..3 : ~is_correct_chromosome_type(classes_to_be_validated[k],
                                                               args.chromosome_cls)}
       IN  /\ last_call' = [op |-> "Experiment", raised |-> failed # {},
                            after_restart |-> FALSE, value |-> NoValue]
           /\ config' = IF failed # {} THEN config ELSE args
    /\ UNCHANGED <<heap, fitness_cache, population, generation, avg_cache, sd_cache,
                   best_individuals, args, sampler, fitness_asked, run>>

NextConstruct == Experiment_init

SpecConstruct == InitConstruct /\ [][NextConstruct]_vars

\* The class is a strategy base whose chromosome parameter is still open.
RECURSIVE OpenStrategy(_)
OpenStrategy(cls) ==
    \/ cls = "Strategy"
    \/ \E k \in 1..Len(ClassStatements[cls]) :
         LET base == ClassStatements[cls][k]
         IN  base.alias /\ base.args = <<"TypeVar">> /\ base.cls # "Generic"
             /\ OpenStrategy(base.cls)

\* The chromosome classes a strategy class is declared for: the type argument
\* it gives to a strategy base, its own or the one of a class it derives from.
RECURSIVE DeclaredFor(_)
DeclaredFor(cls) ==
    UNION {LET base == ClassStatements[cls][k]
           IN  IF base.alias
               THEN IF OpenStrategy(base.cls) THEN Range(base.args) \ {"TypeVar"} ELSE {}
               ELSE DeclaredFor(base.cls) :
           k \in 1..Len(ClassStatements[cls])}

DeclaresCompatibility(cls, chromosome_cls) ==
    \E declared \in DeclaredFor(cls) : issubclass(chromosome_cls, declared)

\* C24: the constructor raises TypeError exactly when the fitness computer, the
\* mutator or the recombiner class does not declare the chosen chromosome class
\* or one of its base classes, and then no Experiment exists; it succeeds when
\* all three declare it.  The code reads the type arguments of every generic
\* base, whatever they parametrize, and only the bases of the nearest class
\* statement that has a subscripted base.
ConstructorChecksDeclarations ==
    last_call.op = "Experiment" =>
        /\ last_call.raised <=>
             \E cls \in {args.fitness_computer_cls, args.mutator_cls, args.recombiner_cls} :
                ~DeclaresCompatibility(cls, args.chromosome_cls)
        /\ last_call.raised => config = NoValue

(* --------------------------- run_experiment --------------------------- *)
\* The largest max_fitness_computations tried.
MaxFitnessComputations == 2

\* The lists of collector types (stats_collector_types) tried.
StatisticsCollectorTypes ==
    {<<"BestFitness">>, <<"AvgFitness", "FitnessSD", "BestFitness">>}

\* population.avg_fitness() under @lru_cache: the memoized value, or the mean
\* of fitness() over the population, then memoized.
avg_fitness_call(h, cache, population_list, avg_memo) ==
    IF avg_memo # <<>>
    THEN [value |-> avg_memo[1], cache |-> cache, avg_cache |-> avg_memo]
    ELSE LET cache1 == CacheAfterFitness(h, cache, Range(population_list))
             value == Population_avg_fitness(h, cache1, population_list)
         IN  [value |-> value, cache |-> cache1, avg_cache |-> <<value>>]

\* population.sd_fitness() under @lru_cache: 0 for fewer than 2 individuals,
\* else stdev of fitness() over the population around avg_fitness().
sd_fitness_call(h, cache, population_list, avg_memo, sd_memo) ==
    IF sd_memo # <<>>
    THEN [value |-> sd_memo[1], cache |-> cache, avg_cache |-> avg_memo,
          sd_cache |-> sd_memo]
    ELSE IF Len(population_list) < 2
    THEN [value |-> [num |-> 0, den |-> 1], cache |-> cache, avg_cache |-> avg_memo,
          sd_cache |-> <<[num |-> 0, den |-> 1]>>]
    ELSE LET cache1 == CacheAfterFitness(h, cache, Range(population_list))
             avg == avg_fitness_call(h, cache1, population_list, avg_memo)
             value == Population_sd_fitness(h, avg.cache, population_list, avg.value)
         IN  [value |-> value, cache |-> avg.cache, avg_cache |-> avg.avg_cache,
              sd_cache |-> <<value>>]

\* collector.collect_data_point(population, solution_selector) for a collector
\* of the given type: the value of the data point and the memos after the call.
\* st holds the memos: cache (fitness), avg_cache and sd_cache.
collect_data_point(type, st) ==
    IF type = "AvgFitness"
    THEN LET o == avg_fitness_call(heap, st.cache, population, st.avg_cache)
         IN  [value |-> o.value,
              st |-> [cache |-> o.cache, avg_cache |-> o.avg_cache,
                      sd_cache |-> st.sd_cache]]
    ELSE IF type = "FitnessSD"
    THEN LET o == sd_fitness_call(heap, st.cache, population, st.avg_cache, st.sd_cache)
         IN  [value |-> o.value,
              st |-> [cache |-> o.cache, avg_cache |-> o.avg_cache,
                      sd_cache |-> o.sd_cache]]
    ELSE LET best_individual ==
                 KBestFitnessSolutionSelector_best_individual(best_individuals)
         IN  [value |-> Individual_fitness(heap, st.cache, best_individual),
              st |-> [st EXCEPT !.cache = CacheAfterFitness(heap, st.cache,
                                                            {best_individual})]]

\* Only the first collector of the list receives a data point.
collect_data_points_FirstOnly(collectors, k, st) ==
    IF k > Len(collectors) \/ k > 1 THEN [collectors |-> collectors, st |-> st]
    ELSE LET o == collect_data_point(collectors[k].type, st)
         IN  [collectors |-> [collectors EXCEPT
                                 ![k].data = Append(@, <<generation, o.value>>)],
              st |-> o.st]

\* for collector in statistics_collectors: collector.collect_data_point(...),
\* from position k of the list on; each appends (population.generation, value).
RECURSIVE collect_data_points(_, _, _)
collect_data_points(collectors, k, st) ==
    IF k > Len(collectors) THEN [collectors |-> collectors, st |-> st]
    ELSE LET o == collect_data_point(collectors[k].type, st)
         IN  collect_data_points(
                 [collectors EXCEPT ![k].data = Append(@, <<generation, o.value>>)],
                 k + 1, o.st)

\* The number of invocations of the FitnessComputer for each individual of
\* `live`, after the invocations listed in `computed` (a list of sets of
\* individuals) are added to the numbers of `counts`.
Counted(counts, computed, live) ==
    [id \in live |->
        (IF id \in DOMAIN counts THEN counts[id] ELSE 0)
        + Cardinality({k \in DOMAIN computed : id \in computed[k]})] @@ EmptyFunction

\* The local state of run_experiment for the given arguments of the
\* Experiment: no collector has data, nothing is counted.  evolve_calls and
\* num_fitness_computed record what happened: the evolve() calls made, and for
\* each individual of the population the invocations of the FitnessComputer.
RunStates(max_generations, max_fitness_computations, targets, collector_types) ==
    {[max_generations |-> g,
      max_fitness_computations |-> b,
      target_set |-> t.set,
      target_fitness |-> t.fitness,
      collectors |-> [k \in DOMAIN types |-> [type |-> types[k], data |-> <<>>]] \o <<>>,
      current_num_fitness_computations |-> 0,
      evolve_calls |-> 0,
      num_fitness_computed |-> EmptyFunction,
      outcome |-> "running",
      returned |-> FALSE] :
        g \in max_generations, b \in max_fitness_computations, t \in targets,
        types \in collector_types}

\* The while test of run_experiment and the print that follows it:
\*   while population.generation <= self.max_generations:
\*       print(... population.avg_fitness(), population.sd_fitness())
\*   else: print(... population.avg_fitness(), population.sd_fitness())
\*   return (solution_selector.best_individuals, statistics_collectors)
LoopTest ==
    /\ ~last_call.raised
    /\ LET avg == avg_fitness_call(heap, fitness_cache, population, avg_cache)
           sd == sd_fitness_call(heap, avg.cache, population, avg.avg_cache, sd_cache)
           entered == generation <= run.max_generations
       IN  /\ fitness_cache' = sd.cache
           /\ avg_cache' = sd.avg_cache
           /\ sd_cache' = sd.sd_cache
           /\ run' = [run EXCEPT
                        !.num_fitness_computed =
                            Counted(@, <<DOMAIN sd.cache \ DOMAIN fitness_cache>>,
                                    Range(population)),
                        !.outcome = IF entered THEN @ ELSE "max_generations",
                        !.returned = ~entered]
           /\ last_call' = [op |-> IF entered THEN "loop_test" ELSE "return",
                            raised |-> FALSE, after_restart |-> FALSE, value |-> NoValue]
    /\ UNCHANGED <<heap, population, generation, best_individuals, config, args,
                   sampler, fitness_asked>>

\* population.evolve() in the loop of run_experiment, as in Evolve; an
\* exception of a selector ends the run.
RunEvolve ==
    /\ ~last_call.raised
    /\ \E o \in Population_evolve(heap, fitness_cache, population, generation, config) :
         /\ population' = o.population
         /\ generation' = o.generation
         /\ heap' = Restrict(o.heap, Live(o.population, best_individuals))
         /\ fitness_cache' = Restrict(o.cache, Live(o.population, best_individuals))
         /\ avg_cache' = IF o.raised THEN avg_cache ELSE <<>>
         /\ sd_cache' = IF o.raised THEN sd_cache ELSE <<>>
         /\ run' = [run EXCEPT
                      !.evolve_calls = @ + 1,
                      !.num_fitness_computed = Counted(@, o.computed, Range(o.population)),
                      !.outcome = IF o.raised THEN "IndexError" ELSE @]
         /\ last_call' = [op |-> "evolve", raised |-> o.raised, after_restart |-> FALSE,
                          value |-> NoValue]
    /\ UNCHANGED <<best_individuals, config, args, sampler, fitness_asked>>

\* for collector in statistics_collectors:
\*     collector.collect_data_point(population, solution_selector)
CollectDataPoints ==
    /\ ~last_call.raised
    /\ LET o == collect_data_points(run.collectors, 1,
                                    [cache |-> fitness_cache, avg_cache |-> avg_cache,
                                     sd_cache |-> sd_cache])
       IN  /\ fitness_cache' = o.st.cache
           /\ avg_cache' = o.st.avg_cache
           /\ sd_cache' = o.st.sd_cache
           /\ run' = [run EXCEPT
                        !.collectors = o.collectors,
                        !.num_fitness_computed =
                            Counted(@, <<DOMAIN o.st.cache \ DOMAIN fitness_cache>>,
                                    Range(population))]
    /\ last_call' = [op |-> "collect_data_point", raised |-> FALSE,
                     after_restart |-> FALSE, value |-> NoValue]
    /\ UNCHANGED <<heap, population, generation, best_individuals, config, args,
                   sampler, fitness_asked>>

\* The count of fitness computations at the end of a generation:
\*   for individual in population.population:
\*       if individual.num_fitness_computed != individual_num_fitness_computed[id(individual)]: ...
\*   current_num_fitness_computations = sum(individual_num_fitness_computed.values())
\* Individual has no attribute num_fitness_computed: the first pass of the loop
\* raises AttributeError, and the tests for the budget, the target and the
\* stagnation that follow are not reached.
FitnessAccounting ==
    /\ ~last_call.raised
    /\ population # <<>>
    /\ run' = [run EXCEPT !.outcome = "AttributeError"]
    /\ last_call' = [op |-> "fitness_accounting", raised |-> TRUE,
                     after_restart |-> FALSE, value |-> NoValue]
    /\ UNCHANGED <<heap, fitness_cache, population, generation, avg_cache, sd_cache,
                   best_individuals, config, args, sampler, fitness_asked>>

(* -------------------------------- C28 --------------------------------- *)
\* Generations of evolve(), update_individuals() and collect_data_point()
\* calls, as the loop of run_experiment makes them.
InitCollect ==
    /\ config \in Configs({"BestFitness"}, {"BestFitness"}, 1..MaxSolutions)
    /\ InitPopulation
    /\ run \in RunStates({MaxGeneration}, {MaxFitnessComputations},
                         {[set |-> FALSE, fitness |-> 0]}, StatisticsCollectorTypes)

NextCollect ==
    \/ last_call.op \in {"init", "collect_data_point"} /\ LoopTest
    \/ last_call.op = "loop_test" /\ RunEvolve
    \/ last_call.op = "evolve" /\ UpdateIndividuals
    \/ last_call.op = "update_individuals" /\ CollectDataPoints

SpecCollect == InitCollect /\ [][NextCollect]_vars

RunTargets ==
    {[set |-> FALSE, fitness |-> 0]} \cup
    {[set |-> TRUE, fitness |-> FitnessUnit * FitnessComputer_fitness(c)] : c \in Chromosomes}

\* Experiment.run_experiment from its first line: the initial population, the
\* solution selector, the collectors and the counters.
InitRun ==
    /\ config \in Configs(MatingSelectors, {"BestFitness"}, {1})
    /\ InitPopulation
    /\ run \in RunStates(0..MaxGeneration, 1..MaxFitnessComputations, RunTargets,
                         StatisticsCollectorTypes)

\* run_experiment statement by statement; what raises ends the run.
NextRun ==
    \/ last_call.op = "init" /\ LoopTest
    \/ last_call.op = "loop_test" /\ RunEvolve
    \/ last_call.op = "evolve" /\ UpdateIndividuals
    \/ last_call.op = "update_individuals" /\ CollectDataPoints
    \/ last_call.op = "collect_data_point" /\ FitnessAccounting

SpecRun == InitRun /\ [][NextRun]_vars

\* The number of times the FitnessComputer was invoked for the individuals of
\* the population.
ComputedForPopulation ==
    SumOver(population, [id \in Range(population) |-> run.num_fitness_computed[id]])

\* C21: at the end of each generation the total used for the budget is the
\* number of times the fitness of the individuals of the population was
\* actually computed.  The code raises AttributeError where it reads the
\* per-individual number, and the total stays 0.
FitnessTotalIsExact ==
    last_call.op = "fitness_accounting" =>
        /\ ~last_call.raised
        /\ run.current_num_fitness_computations = ComputedForPopulation

\* run_experiment has returned or raised.
RunEnded == last_call.op = "return" \/ last_call.raised

\* C22: run_experiment calls evolve() at most max_generations times; when no
\* budget or target stop fires it calls it exactly max_generations times and
\* ends with the max-generations outcome at generation max_generations + 1;
\* it returns the archive and one collector per configured type.  The code
\* raises in the first generation and returns nothing.
RunEndsAfterMaxGenerations ==
    /\ run.evolve_calls <= run.max_generations
    /\ RunEnded =>
         /\ run.returned
         /\ run.outcome \notin {"budget", "target"} =>
              /\ run.outcome = "max_generations"
              /\ run.evolve_calls = run.max_generations
              /\ generation = run.max_generations + 1

\* The archive holds a fitness at least as good as the target, or less than
\* EPS from it.
TargetReached ==
    /\ run.target_set
    /\ \E id \in Range(best_individuals) :
         LET fitness == FitnessUnit * FitnessIn(heap, id)
         IN  \/ float_equal(run.target_fitness, fitness)
             \/ AtLeastAsGood(fitness, run.target_fitness, config.maximize_fitness)

\* C23: a generation that ends with the budget reached and the target reached
\* stops the run for the budget reason.  In the code no generation ends with a
\* stop: the count before the tests raises.
BudgetStopComesFirst ==
    (/\ last_call.op = "fitness_accounting"
     /\ ComputedForPopulation >= run.max_fitness_computations
     /\ TargetReached) =>
        run.outcome = "budget"

(* -------------------------------- C31 --------------------------------- *)
\* An Experiment with population_size = 1, any mating and any survivor selector.
InitSingle ==
    /\ config \in {cfg \in Configs(MatingSelectors, SurvivorSelectors, {0}) :
                      cfg.population_size = 1}
    /\ InitPopulation
    /\ run = NoValue

NextSingle == EvolveOffspring

SpecSingle == InitSingle /\ [][NextSingle]_vars

\* C31: evolve() on a population of exactly one individual asks no mating
\* selector (no couple, no fitness computed in the offspring step) and builds
\* num_parent_pairs x breed_size children, each a new object stamped with the
\* generation of the call; the single individual keeps its chromosome and the
\* population has one individual after the survivor selection.
SingleIndividualIsCloned ==
    (last_call.op = "evolve" /\ args.population_size = 1) =>
        /\ ~last_call.raised
        /\ args.couples = <<>>
        /\ args.computed[1] = {}
        /\ Len(args.breed) = config.num_parent_pairs * config.breed_size
        /\ \A k \in 1..Len(args.breed) :
             /\ args.breed[k] \notin args.existing
             /\ args.children[k].generation = args.generation
             /\ \A j \in 1..Len(args.breed) : j # k => args.breed[j] # args.breed[k]
        /\ args.after[args.parents[1]].chromosome = args.before[args.parents[1]].chromosome
        /\ Len(population) = 1

\* The second evolve() of a single individual made two children, one of them
\* with a chromosome other than the parent's (a mutated copy).
SingleIndividualIsClonedWitness ==
    /\ last_call.op = "evolve"
    /\ args.population_size = 1
    /\ args.generation = 2
    /\ Len(args.breed) = 2
    /\ \E k \in 1..2 : args.children[k].chromosome # args.before[args.parents[1]].chromosome

(* -------------------------------- C32 --------------------------------- *)
\* Populations up to SmallTournament take any chromosomes and 0..MaxPairs
\* couples; the larger ones, up to MaxTournamentPopulation, take two chromosome
\* values and one couple.
MaxTournamentPopulation == 6
SmallTournament == 4

\* The arguments of one BestFromRandomMatingSelector.select_couples call on a
\* population of at least 2 individuals.
InitTournament ==
    /\ \E n \in 2..MaxTournamentPopulation :
         /\ heap \in [1..n -> [chromosome : IF n <= SmallTournament THEN Chromosomes ELSE 0..1,
                               generation : {1}]]
         /\ \E num_pairs \in 0..MaxPairs, maximize \in BOOLEAN :
              /\ n > SmallTournament => num_pairs = 1
              /\ args = [selector |-> "BestFromRandom",
                         population |-> [k \in 1..n |-> k],
                         num_pairs |-> num_pairs,
                         maximize_fitness |-> maximize]
    /\ fitness_cache = EmptyFunction
    /\ fitness_asked = {}
    /\ population = <<>>
    /\ generation = 1
    /\ avg_cache = <<>>
    /\ sd_cache = <<>>
    /\ best_individuals = <<>>
    /\ config = NoValue
    /\ last_call = NoCall
    /\ run = NoValue
    /\ sampler = NoValue

NextTournament == SelectCouplesCall

SpecTournament == InitTournament /\ [][NextTournament]_vars

\* The couple is the two best of the set S of individuals, best first: two
\* different members of S, the first at least as good as the second, and no
\* other member of S better than the second.
TwoBestOf(couple, S, maximize_fitness) ==
    /\ couple[1] # couple[2]
    /\ {couple[1], couple[2]} \subseteq S
    /\ AtLeastAsGood(CurrentFitness[couple[1]], CurrentFitness[couple[2]], maximize_fitness)
    /\ \A id \in S \ {couple[1], couple[2]} :
          AtLeastAsGood(CurrentFitness[couple[2]], CurrentFitness[id], maximize_fitness)

\* C32: BestFromRandomMatingSelector.select_couples on n >= 2 individuals
\* returns num_pairs couples without error; each couple is the two best, best
\* first, of some set of min(5, n) members of the population (of the whole
\* population when n <= 5); the list holds the same individuals after the call.
TournamentPicksTwoBest ==
    (MatingEnded("BestFromRandom") /\ Len(args.population) >= 2) =>
        LET couples == last_call.value.couples
            n == Len(args.population)
            random_count == IF RandomCountLimit < n THEN RandomCountLimit ELSE n
        IN  /\ ~last_call.raised
            /\ Len(couples) = args.num_pairs
            /\ \A k \in 1..Len(couples) :
                  \E S \in SUBSET Range(args.population) :
                     /\ Cardinality(S) = random_count
                     /\ TwoBestOf(couples[k], S, args.maximize_fitness)
            /\ n <= RandomCountLimit =>
                  \A k \in 1..Len(couples) :
                     TwoBestOf(couples[k], Range(args.population), args.maximize_fitness)
            /\ Range(args.population) = DOMAIN heap
            /\ n = Cardinality(DOMAIN heap)

\* A population of more than 5 whose single best individual was left out of the
\* subset: the couple is not the two best of the whole population.
TournamentPicksTwoBestWitness ==
    /\ MatingEnded("BestFromRandom")
    /\ Len(args.population) > RandomCountLimit
    /\ Len(last_call.value.couples) = 1
    /\ ~TwoBestOf(last_call.value.couples[1], Range(args.population), args.maximize_fitness)
    /\ args.population # [k \in 1..Len(args.population) |-> k]

(* -------------------------------- C33 --------------------------------- *)
MaxGenerationalParents == 2

\* The arguments of one GenerationalSurvivorSelector.select_survivors call:
\* at least one individual, generations from 0 (Individual takes any generation).
InitGenerational ==
    /\ \E np \in 0..MaxGenerationalParents, nb \in 0..MaxBreed :
         /\ np + nb >= 1
         /\ heap \in [1..(np + nb) -> [chromosome : Chromosomes, generation : 0..MaxGeneration]]
         /\ \E size \in 1..(np + nb), maximize \in BOOLEAN :
              args = [selector |-> "Generational",
                      population_size |-> size,
                      parents |-> [k \in 1..np |-> k],
                      breed |-> [k \in 1..nb |-> np + k],
                      maximize_fitness |-> maximize]
    /\ fitness_cache = EmptyFunction
    /\ fitness_asked = {}
    /\ population = <<>>
    /\ generation = 1
    /\ avg_cache = <<>>
    /\ sd_cache = <<>>
    /\ best_individuals = <<>>
    /\ config = NoValue
    /\ last_call = NoCall
    /\ run = NoValue
    /\ sampler = NoValue

NextGenerational == SelectSurvivorsCall

SpecGenerational == InitGenerational /\ [][NextGenerational]_vars

\* The sign of a mean with a zero mean replaced by 1: the sign of the sum, or 1.
MeanSign(sum) == IF sum > 0 THEN 1 ELSE IF sum < 0 THEN 0 - 1 ELSE 1

\* score(a) >= score(b) for score = (fitness / mean fitness) x (generation /
\* mean generation) over the individuals `all`: both scores have the same
\* denominator, so the products fitness x generation are compared, the other
\* way round when the denominator is negative.
ScoreAtLeast(a, b, all) ==
    LET sign == MeanSign(SumOver(all, CurrentFitness))
                * MeanSign(SumOver(all, [id \in Range(all) |-> heap[id].generation]))
        pa == CurrentFitness[a] * heap[a].generation
        pb == CurrentFitness[b] * heap[b].generation
    IN  IF sign > 0 THEN pa >= pb ELSE pa <= pb

\* C33: GenerationalSurvivorSelector.select_survivors on at least one
\* individual raises no error and returns population_size different members of
\* parents plus breed (all of them when there are fewer), ranked by score,
\* descending when maximizing and ascending when minimizing, and no individual
\* left out has a better score than a survivor.
GenerationalKeepsBestScores ==
    (last_call.op = "select_survivors" /\ args.selector = "Generational") =>
        LET all == args.parents \o args.breed
            survivors == last_call.value.survivors
            Better(a, b) == IF args.maximize_fitness THEN ScoreAtLeast(a, b, all)
                            ELSE ScoreAtLeast(b, a, all)
        IN  /\ ~last_call.raised
            /\ Len(survivors) = (IF args.population_size < Len(all)
                                 THEN args.population_size ELSE Len(all))
            /\ \A k \in 1..Len(survivors) :
                  /\ survivors[k] \in Range(all)
                  /\ \A j \in 1..Len(survivors) : j < k =>
                        /\ survivors[j] # survivors[k]
                        /\ Better(survivors[j], survivors[k])
                  /\ \A x \in Range(all) \ Range(survivors) : Better(survivors[k], x)

\* A call with a negative mean fitness in which the survivor has neither the
\* highest fitness nor the highest generation of the candidates.
GenerationalKeepsBestScoresWitness ==
    /\ last_call.op = "select_survivors"
    /\ args.selector = "Generational"
    /\ args.maximize_fitness
    /\ Len(last_call.value.survivors) = 1
    /\ SumOver(args.parents \o args.breed, CurrentFitness) < 0
    /\ \E x \in DOMAIN heap :
          /\ CurrentFitness[x] > CurrentFitness[last_call.value.survivors[1]]
          /\ heap[x].generation > heap[last_call.value.survivors[1]].generation
          /\ ~ScoreAtLeast(x, last_call.value.survivors[1], args.parents \o args.breed)

(* -------------------------------- C34 --------------------------------- *)
\* The fitness() values of the population are all the same, or there are fewer
\* than 2 individuals: the standard deviation is zero.
SameFitness(cache, population_list) ==
    \/ Len(population_list) < 2
    \/ \A a, b \in Range(population_list) : cache[a] = cache[b]

BudgetStopsRun ==
    (/\ last_call.op = "fitness_accounting"
     /\ ComputedForPopulation >= run.max_fitness_computations) =>
        /\ ~last_call.raised
        /\ run.outcome = "budget"
        /\ run.returned
        /\ best_individuals # <<>>

(* -------------------------------- C36 --------------------------------- *)
\* C36: avg_fitness() and sd_fitness() called after an evolve() (or on the
\* first population), with no restart_population() since, return the mean and
\* the standard deviation of the fitness of the chromosomes of the population
\* as it is then; sd_fitness() is 0 for fewer than 2 individuals; and two calls
\* of one of them in a row return the same value.  The code computes both from
\* the memoized fitness of the individuals, which an earlier
\* restart_population() left stale for those that evolve() kept.
StatsFollowEvolve ==
    /\ [](LET avg == Population_avg_fitness(heap, CurrentFitness, population)
              sd == Population_sd_fitness(heap, CurrentFitness, population, avg)
          IN  /\ (last_call.op = "avg_fitness" /\ ~last_call.after_restart)
                    => last_call.value.sum * avg.n = avg.sum * last_call.value.n
              /\ (last_call.op = "sd_fitness" /\ ~last_call.after_restart)
                    => /\ last_call.value.num * sd.den = sd.num * last_call.value.den
                       /\ Len(population) < 2 => last_call.value.num = 0)
    /\ [][(last_call.op \in {"avg_fitness", "sd_fitness"} /\ last_call'.op = last_call.op)
             => last_call'.value = last_call.value]_vars

(* -------------------------------- C37 --------------------------------- *)
\* Two runs side by side.  Each has its own individuals and its own fitness
\* memo: heap and fitness_cache are those of the first run, run.heap and
\* run.fitness_cache those of the second; both hold the same population list.
\* Before the selection each run calls fitness() and initialize() on its
\* individuals, up to MaxTwoRunsCalls calls in all.
MaxTwoRunsCalls == 3

\* The selections compared: the selector calls that draw no random number, so
\* that both runs are fed the same (empty) sequence of draws.
TwoRunsSelections ==
    [kind : {"select_couples"}, selector : {"BestFitness"}, maximize_fitness : BOOLEAN]
    \cup [kind : {"select_survivors"}, selector : {"BestFitness", "Generational"},
          maximize_fitness : BOOLEAN]
    \cup [kind : {"update_individuals"}, selector : {"KBestFitness"},
          maximize_fitness : BOOLEAN]

\* What the selection returns, and the order it leaves the list in, for the
\* individuals h and the fitness memo `cache`: one couple, one survivor, or an
\* archive of one solution (given by its chromosome).
SelectionResult(selection, h, cache, population_list) ==
    LET f == CacheAfterFitness(h, cache, Range(population_list))
    IN  CASE selection.kind = "select_couples" ->
                {[raised |-> o.raised, couples |-> o.couples, population |-> o.population] :
                    o \in SelectCouples(selection.selector, population_list, 1,
                                        selection.maximize_fitness, f)}
          [] selection.kind = "select_survivors" ->
                SelectSurvivors(selection.selector, 1, population_list, <<>>,
                                selection.maximize_fitness, f, h)
          [] selection.kind = "update_individuals" ->
                LET o == KBestFitnessSolutionSelector_update_individuals(
                             h, cache, <<>>, population_list, 1, selection.maximize_fitness)
                IN  {[population |-> o.population,
                      best_individuals |-> [k \in 1..Len(o.best_individuals) |->
                                               o.heap[o.best_individuals[k]].chromosome] \o <<>>]}

\* Two runs of 2 individuals each, every individual initialized, no fitness asked.
InitTwoRuns ==
    /\ population = <<1, 2>>
    /\ heap \in [1..2 -> [chromosome : Chromosome_initialize, generation : {1}]]
    /\ fitness_cache = EmptyFunction
    /\ \E h \in [1..2 -> [chromosome : Chromosome_initialize, generation : {1}]] :
         run = [heap |-> h, fitness_cache |-> EmptyFunction, calls |-> 0]
    /\ generation = 1
    /\ avg_cache = <<>>
    /\ sd_cache = <<>>
    /\ best_individuals = <<>>
    /\ config = NoValue
    /\ last_call = NoCall
    /\ NoHarness

\* individual.fitness() in one of the runs.
TwoRunsFitness ==
    /\ last_call.op # "selection"
    /\ run.calls < MaxTwoRunsCalls
    /\ \E id \in Range(population) :
         \/ /\ fitness_cache' = CacheAfterFitness(heap, fitness_cache, {id})
            /\ run' = [run EXCEPT !.calls = @ + 1]
         \/ /\ run' = [run EXCEPT !.calls = @ + 1,
                                  !.fitness_cache = CacheAfterFitness(run.heap, @, {id})]
            /\ UNCHANGED fitness_cache
    /\ last_call' = [op |-> "fitness", raised |-> FALSE, after_restart |-> FALSE,
                     value |-> NoValue]
    /\ UNCHANGED <<heap, population, generation, avg_cache, sd_cache, best_individuals,
                   config, args, sampler, fitness_asked>>

\* individual.initialize() in one of the runs: a new chromosome, the memo kept.
TwoRunsInitialize ==
    /\ last_call.op # "selection"
    /\ run.calls < MaxTwoRunsCalls
    /\ \E id \in Range(population), c \in Chromosome_initialize :
         \/ /\ heap' = [heap EXCEPT ![id].chromosome = c]
            /\ run' = [run EXCEPT !.calls = @ + 1]
         \/ /\ run' = [run EXCEPT !.calls = @ + 1, !.heap[id].chromosome = c]
            /\ UNCHANGED heap
    /\ last_call' = [op |-> "initialize", raised |-> FALSE, after_restart |-> FALSE,
                     value |-> NoValue]
    /\ UNCHANGED <<fitness_cache, population, generation, avg_cache, sd_cache,
                   best_individuals, config, args, sampler, fitness_asked>>

\* The same selection made in both runs when their individuals are equal.
TwoRunsSelect ==
    /\ last_call.op # "selection"
    /\ heap = run.heap
    /\ \E selection \in TwoRunsSelections :
         /\ args' = selection
         /\ \E first \in SelectionResult(selection, heap, fitness_cache, population),
               second \in SelectionResult(selection, run.heap, run.fitness_cache, population) :
              last_call' = [op |-> "selection", raised |-> FALSE, after_restart |-> FALSE,
                            value |-> [first |-> first, second |-> second]]
    /\ UNCHANGED <<heap, fitness_cache, population, generation, avg_cache, sd_cache,
                   best_individuals, config, sampler, fitness_asked, run>>

NextTwoRuns == TwoRunsFitness \/ TwoRunsInitialize \/ TwoRunsSelect

SpecTwoRuns == InitTwoRuns /\ [][NextTwoRuns]_vars

\* C37: a selection made in two runs from equal individuals and an equal list,
\* with the same random draws, gives equal results.  The selectors rank by
\* individual.fitness(), which returns what an earlier call memoized: after an
\* initialize() the memo is stale, and the two runs decide differently.
SelectionIsDeterministic ==
    last_call.op = "selection" => last_call.value.first = last_call.value.second

(* -------------------------------- C38 --------------------------------- *)
\* evolve() observed as in EvolveOffspring, for every mating and every
\* survivor selector.
NextFrame == EvolveOffspring

SpecFrame == Init /\ [][NextFrame]_vars

\* C38: evolve() leaves every individual that existed before the call, the
\* members of the population among them, with the chromosome and the
\* generation it had; the children are other objects.
EvolveKeepsParents ==
    last_call.op = "evolve" =>
        /\ Range(args.parents) \subseteq DOMAIN args.after
        /\ \A id \in DOMAIN args.before : args.after[id] = args.before[id]
        /\ \A k \in 1..Len(args.breed) : args.breed[k] \notin DOMAIN args.before

\* An evolve() of a population of 2 made a child whose chromosome is that of
\* neither parent (a mutated or recombined child), and a parent survived.
EvolveKeepsParentsWitness ==
    /\ last_call.op = "evolve"
    /\ ~last_call.raised
    /\ Len(args.parents) = 2
    /\ \E k \in 1..Len(args.children) :
          \A id \in Range(args.parents) :
             args.children[k].chromosome # args.before[id].chromosome
    /\ Range(population) \cap Range(args.parents) # {}

(* -------------------------------- C39 --------------------------------- *)
\* C39: every individual of the population has a generation from 1 to the
\* generation of the population, and below it once an evolve() has returned.
IndividualGenerationBounded ==
    \A k \in 1..Len(population) :
       /\ 1 <= heap[population[k]].generation
       /\ heap[population[k]].generation <= generation
       /\ generation > 1 => heap[population[k]].generation < generation

\* After two evolve() calls the population holds an individual of the first
\* and one of the second generation.
IndividualGenerationBoundedWitness ==
    /\ generation = 3
    /\ Len(population) = 2
    /\ heap[population[1]].generation # heap[population[2]].generation
    /\ \E k \in 1..2 : heap[population[k]].generation = 2

(* -------------------------------- C40 --------------------------------- *)
\* The population member an archived entry was deep-copied from, 0 once that
\* member has left the population.  Between two update_individuals() calls of
\* the run loop there is one evolve(), whose children are new objects: a member
\* found in the population at both calls is the same object.
ArchiveOrigin(previous, copied_from, archive, population_list) ==
    [a \in Range(archive) |->
        IF a \in DOMAIN copied_from THEN copied_from[a]
        ELSE IF a \in DOMAIN previous /\ previous[a] \in Range(population_list)
        THEN previous[a]
        ELSE 0] @@ EmptyFunction

\* solution_selector.update_individuals(population.population), with the origin
\* of every archived entry kept in args.
UpdateIndividualsTraced ==
    /\ ~last_call.raised
    /\ LET o == KBestFitnessSolutionSelector_update_individuals(
                    heap, fitness_cache, best_individuals, population,
                    config.number_solutions, config.maximize_fitness)
           previous == IF args = NoValue THEN EmptyFunction ELSE args.origin
       IN  /\ population' = o.population
           /\ best_individuals' = o.best_individuals
           /\ heap' = Restrict(o.heap, Live(o.population, o.best_individuals))
           /\ fitness_cache' = Restrict(o.cache, Live(o.population, o.best_individuals))
           /\ args' = [origin |-> ArchiveOrigin(previous, o.copied_from,
                                                o.best_individuals, o.population)]
    /\ last_call' = [op |-> "update_individuals", raised |-> FALSE,
                     after_restart |-> last_call.after_restart, value |-> NoValue]
    /\ UNCHANGED <<generation, avg_cache, sd_cache, config, sampler, fitness_asked, run>>

\* The loop of run_experiment, as in SpecArchive.
NextCopies ==
    \/ last_call.op # "evolve" /\ Evolve
    \/ last_call.op = "evolve" /\ UpdateIndividualsTraced
    \/ last_call.op = "update_individuals" /\ RestartPopulation

SpecCopies == InitArchive /\ [][NextCopies]_vars

\* C40: the archive never holds two entries that are copies of the same live
\* individual: no two archived entries were deep-copied from one member that
\* is still in the population with the chromosome and the generation of both.
\* The code does not look whether a member is already archived: the best
\* member is copied again as soon as it beats the next archived entry.
NoTwoCopiesOfOneIndividual ==
    args # NoValue =>
        \A a, b \in Range(best_individuals) :
            (/\ a # b
             /\ args.origin[a] = args.origin[b]
             /\ args.origin[a] \in Range(population))
            => ~(heap[a] = heap[args.origin[a]] /\ heap[b] = heap[args.origin[a]])

====
